---- MODULE Spec2Model ----
(***************************************************************************)
(* A model of the SWAN SQLite -> DuckDB evaluation pipeline:               *)
(*   - the value canonicalizer and the scalar / row comparison oracle      *)
(*     (duckdb_pipeline.py),                                               *)
(*   - the column nullification mutators (preprocess_dbs.py for SQLite,    *)
(*     nullify_columns_in_duckdb for DuckDB),                              *)
(*   - the two-phase evaluation harness (duckdb_pipeline.py main).         *)
(*                                                                         *)
(* Text is a sequence of one-character strings.  A Python value is a       *)
(* record of one fixed shape (Val); a float is hi + lo * 10^-10 with hi    *)
(* and lo of the same sign and |lo| < 10^9, or one of nan / inf / -inf.    *)
(***************************************************************************)
EXTENDS Integers, Sequences, FiniteSets, TLC

(***************************************************************************)
(* Bounds of the model.                                                    *)
(***************************************************************************)
MaxRows == 2
MaxTableRows == 2
MaxRefs == 2
MaxRecords == 2
MaxFailed == 1
MaxCalls == 2
MaxCsvRows == 2
MaxExportRows == 2
MaxFragments == 2
MaxLines == 2
MaxIdRows == 3

(***************************************************************************)
(* Python values.                                                          *)
(***************************************************************************)
Val(k, b, hi, lo, sp, s, t, raw) ==
    [k |-> k, b |-> b, hi |-> hi, lo |-> lo, sp |-> sp, s |-> s, t |-> t, raw |-> raw]

PyNone == Val("none", FALSE, 0, 0, "", <<>>, <<>>, <<>>)
PyBool(b) == Val("bool", b, 0, 0, "", <<>>, <<>>, <<>>)
PyInt(n) == Val("int", FALSE, n, 0, "", <<>>, <<>>, <<>>)
PyFloat(hi, lo) == Val("float", FALSE, hi, lo, "fin", <<>>, <<>>, <<>>)
PyNaN == Val("float", FALSE, 0, 0, "nan", <<>>, <<>>, <<>>)
PyInf(sign) == Val("float", FALSE, sign, 0, "inf", <<>>, <<>>, <<>>)
PyStr(s) == Val("str", FALSE, 0, 0, "", s, <<>>, <<>>)
PyDecimal(hi, lo) == Val("decimal", FALSE, hi, lo, "fin", <<>>, <<>>, <<>>)
PyBytes(raw) == Val("bytes", FALSE, 0, 0, "", <<>>, <<>>, raw)
PyDate(y, m, d) == Val("date", FALSE, y, 0, "", <<>>, <<>>, <<m, d>>)
PyObj(t, r) == Val("obj", FALSE, 0, 0, "", r, t, <<>>)
\* the two dicts the canonicalizer produces, and the tuple scalar_equal makes
JBytes(b64) == Val("dict_bytes", FALSE, 0, 0, "", b64, <<>>, <<>>)
JRepr(t, r) == Val("dict_repr", FALSE, 0, 0, "", r, t, <<>>)
PyTuple(tag, payload) == Val("tuple", FALSE, 0, 0, "", payload, tag, <<>>)

(***************************************************************************)
(* Text helpers.                                                           *)
(***************************************************************************)
Digits == <<"0", "1", "2", "3", "4", "5", "6", "7", "8", "9">>

IsDigitChar(c) == \E i \in 1..10 : Digits[i] = c

DigitVal(c) == (CHOOSE i \in 1..10 : Digits[i] = c) - 1

Abs(n) == IF n < 0 THEN -n ELSE n

Max2(a, b) == IF a >= b THEN a ELSE b

RECURSIVE Pow10(_)
Pow10(n) == IF n = 0 THEN 1 ELSE 10 * Pow10(n - 1)

\* str(n) for n >= 0
RECURSIVE NatChars(_)
NatChars(n) == IF n < 10 THEN <<Digits[n + 1]>>
               ELSE NatChars(n \div 10) \o <<Digits[(n % 10) + 1]>>

IntChars(n) == IF n < 0 THEN <<"-">> \o NatChars(-n) ELSE NatChars(n)

\* n zero-padded on the left to w digits
RECURSIVE PadChars(_, _)
PadChars(n, w) == IF Len(NatChars(n)) >= w THEN NatChars(n)
                  ELSE IF w = 0 THEN <<>>
                  ELSE PadChars(n \div 10, w - 1) \o <<Digits[(n % 10) + 1]>>

RECURSIVE StripTrailingZeros(_)
StripTrailingZeros(s) ==
    IF Len(s) > 0 /\ s[Len(s)] = "0" THEN StripTrailingZeros(SubSeq(s, 1, Len(s) - 1))
    ELSE s

RECURSIVE Concat(_)
Concat(ss) == IF Len(ss) = 0 THEN <<>> ELSE Head(ss) \o Concat(Tail(ss))

\* sep.join(ss)
RECURSIVE Join(_, _)
Join(ss, sep) == IF Len(ss) = 0 THEN <<>>
                 ELSE IF Len(ss) = 1 THEN ss[1]
                 ELSE ss[1] \o sep \o Join(Tail(ss), sep)

(***************************************************************************)
(* Literal texts the code writes.                                          *)
(***************************************************************************)
TxtBytes == <<"b", "y", "t", "e", "s">>
TxtDict == <<"d", "i", "c", "t">>
TxtNull == <<"n", "u", "l", "l">>
TxtTrue == <<"t", "r", "u", "e">>
TxtFalse == <<"f", "a", "l", "s", "e">>
TxtNaN == <<"N", "a", "N">>
TxtInfinity == <<"I", "n", "f", "i", "n", "i", "t", "y">>
TxtKeyType == <<"\"", "_", "_", "t", "y", "p", "e", "_", "_", "\"", ":">>
TxtKeyBase64 == <<"\"", "b", "a", "s", "e", "6", "4", "\"", ":">>
TxtKeyPyType == <<"\"", "p", "y", "_", "t", "y", "p", "e", "\"", ":">>
TxtKeyRepr == <<"\"", "r", "e", "p", "r", "\"", ":">>
TxtPyRepr == <<"p", "y", "_", "r", "e", "p", "r">>
\* repr() of the bytes dict, up to its payload: {'__type__': 'bytes', 'base64': '
TxtDictReprHead ==
    <<"{", "'", "_", "_", "t", "y", "p", "e", "_", "_", "'", ":", " ", "'", "b", "y",
      "t", "e", "s", "'", ",", " ", "'", "b", "a", "s", "e", "6", "4", "'", ":", " ", "'">>
TxtDictReprTail == <<"'", "}">>

Quoted(s) == <<"\"">> \o s \o <<"\"">>

(***************************************************************************)
(* base64.b64encode(raw).decode("ascii"), raw a sequence of bytes 0..255.  *)
(***************************************************************************)
B64Alphabet ==
    <<"A", "B", "C", "D", "E", "F", "G", "H", "I", "J", "K", "L", "M", "N", "O", "P",
      "Q", "R", "S", "T", "U", "V", "W", "X", "Y", "Z", "a", "b", "c", "d", "e", "f",
      "g", "h", "i", "j", "k", "l", "m", "n", "o", "p", "q", "r", "s", "t", "u", "v",
      "w", "x", "y", "z", "0", "1", "2", "3", "4", "5", "6", "7", "8", "9", "+", "/">>

B64Char(n) == B64Alphabet[(n % 64) + 1]

RECURSIVE b64encode(_)
b64encode(raw) ==
    IF Len(raw) = 0 THEN <<>>
    ELSE IF Len(raw) = 1 THEN
        <<B64Char(raw[1] \div 4), B64Char((raw[1] % 4) * 16), "=", "=">>
    ELSE IF Len(raw) = 2 THEN
        LET n == (raw[1] * 256 + raw[2]) * 4
        IN  <<B64Char(n \div 4096), B64Char(n \div 64), B64Char(n), "=">>
    ELSE
        LET n == raw[1] * 65536 + raw[2] * 256 + raw[3]
        IN  <<B64Char(n \div 262144), B64Char(n \div 4096), B64Char(n \div 64), B64Char(n)>>
            \o b64encode(SubSeq(raw, 4, Len(raw)))

\* datetime.date.isoformat(): YYYY-MM-DD
isoformat(x) == PadChars(x.hi, 4) \o <<"-">> \o PadChars(x.raw[1], 2)
                \o <<"-">> \o PadChars(x.raw[2], 2)

\* repr() of a dict the canonicalizer made
DictRepr(x) == IF x.k = "dict_bytes" THEN TxtDictReprHead \o x.s \o TxtDictReprTail
               ELSE <<"{">> \o x.t \o x.s \o <<"}">>

(***************************************************************************)
(* _jsonable_scalar: the canonical form of a native value.                 *)
(***************************************************************************)
_jsonable_scalar(x) ==
    IF x.k = "none" THEN PyNone
    ELSE IF x.k \in {"bool", "int", "float", "str"} THEN x
    ELSE IF x.k = "decimal" THEN [x EXCEPT !.k = "float"]
    ELSE IF x.k = "bytes" THEN JBytes(b64encode(x.raw))
    ELSE IF x.k = "date" THEN PyStr(isoformat(x))
    ELSE IF x.k \in {"dict_bytes", "dict_repr"} THEN JRepr(TxtDict, DictRepr(x))
    ELSE JRepr(x.t, x.s)

_jsonable_rows(rows) ==
    [i \in 1..Len(rows) |-> [j \in 1..Len(rows[i]) |-> _jsonable_scalar(rows[i][j])]]

(***************************************************************************)
(* json.dumps(x, sort_keys=True, ensure_ascii=False, separators=(",",":")) *)
(* of a canonical value.  The texts of the model hold no character that    *)
(* JSON escapes.                                                           *)
(***************************************************************************)
FloatRepr(x) ==
    IF x.sp = "nan" THEN TxtNaN
    ELSE IF x.sp = "inf" THEN (IF x.hi < 0 THEN <<"-">> ELSE <<>>) \o TxtInfinity
    ELSE
        LET H == Abs(x.hi)
            L == Abs(x.lo)
            sign == IF x.hi < 0 \/ x.lo < 0 THEN <<"-">> ELSE <<>>
            n == Len(NatChars(L))
            m == StripTrailingZeros(NatChars(L))
        IN  IF L = 0 THEN sign \o NatChars(H) \o <<".", "0">>
            ELSE IF H > 0 \/ L >= 1000000 THEN
                sign \o NatChars(H) \o <<".">> \o StripTrailingZeros(PadChars(L, 10))
            ELSE
                sign \o <<m[1]>>
                \o (IF Len(m) > 1 THEN <<".">> \o SubSeq(m, 2, Len(m)) ELSE <<>>)
                \o <<"e", "-">> \o PadChars(11 - n, 2)

JsonScalar(x) ==
    IF x.k = "none" THEN TxtNull
    ELSE IF x.k = "bool" THEN (IF x.b THEN TxtTrue ELSE TxtFalse)
    ELSE IF x.k = "int" THEN IntChars(x.hi)
    ELSE IF x.k = "float" THEN FloatRepr(x)
    ELSE IF x.k = "str" THEN Quoted(x.s)
    ELSE IF x.k = "dict_bytes" THEN
        <<"{">> \o TxtKeyType \o Quoted(TxtBytes) \o <<",">>
        \o TxtKeyBase64 \o Quoted(x.s) \o <<"}">>
    ELSE
        <<"{">> \o TxtKeyType \o Quoted(TxtPyRepr) \o <<",">>
        \o TxtKeyPyType \o Quoted(x.t) \o <<",">>
        \o TxtKeyRepr \o Quoted(x.s) \o <<"}">>

\* _stable_key of one row (a list of canonical values)
_stable_key(row) ==
    <<"[">> \o Join([j \in 1..Len(row) |-> JsonScalar(row[j])], <<",">>) \o <<"]">>

(***************************************************************************)
(* _num: numeric coercion.  The result is a float value, or PyNone for     *)
(* Python's None.                                                          *)
(***************************************************************************)
IsSpace(c) == c = " "

RECURSIVE LStrip(_)
LStrip(s) == IF Len(s) > 0 /\ IsSpace(s[1]) THEN LStrip(Tail(s)) ELSE s

RECURSIVE RStrip(_)
RStrip(s) == IF Len(s) > 0 /\ IsSpace(s[Len(s)]) THEN RStrip(SubSeq(s, 1, Len(s) - 1))
             ELSE s

\* str.strip()
Strip(s) == RStrip(LStrip(s))

\* str.isdigit() on the model's characters
isdigit(s) == Len(s) > 0 /\ \A i \in 1..Len(s) : IsDigitChar(s[i])

\* int(s) of a digit string
RECURSIVE DigitsVal(_)
DigitsVal(s) == IF Len(s) = 0 THEN 0
                ELSE 10 * DigitsVal(SubSeq(s, 1, Len(s) - 1)) + DigitVal(s[Len(s)])

\* the fraction digits after the point, in units of 10^-10
RECURSIVE FracVal(_, _)
FracVal(s, pos) == IF Len(s) = 0 \/ pos > 10 THEN 0
                   ELSE DigitVal(s[1]) * Pow10(10 - pos) + FracVal(Tail(s), pos + 1)

AllDigits(s) == \A i \in 1..Len(s) : IsDigitChar(s[i])

\* float(s) of an unsigned text: digits, digits.digits, .digits, digits., nan, inf,
\* infinity (the model's texts are lower case and hold no exponent or underscore)
UnsignedFloat(s, sign) ==
    LET dots == {i \in 1..Len(s) : s[i] = "."}
    IN  IF s = <<"n", "a", "n">> THEN PyNaN
        ELSE IF s = <<"i", "n", "f">> \/ s = <<"i", "n", "f", "i", "n", "i", "t", "y">>
            THEN PyInf(sign)
        ELSE IF dots = {} THEN
            (IF isdigit(s) THEN PyFloat(sign * DigitsVal(s), 0) ELSE PyNone)
        ELSE IF Cardinality(dots) > 1 THEN PyNone
        ELSE
            LET d == CHOOSE i \in dots : TRUE
                ip == SubSeq(s, 1, d - 1)
                fp == SubSeq(s, d + 1, Len(s))
            IN  IF AllDigits(ip) /\ AllDigits(fp) /\ Len(ip) + Len(fp) > 0
                THEN PyFloat(sign * DigitsVal(ip), sign * FracVal(fp, 1))
                ELSE PyNone

\* float(s): None stands for the ValueError the caller catches
ParseFloat(s) ==
    IF Len(s) = 0 THEN PyNone
    ELSE IF s[1] = "-" THEN UnsignedFloat(Tail(s), -1)
    ELSE IF s[1] = "+" THEN UnsignedFloat(Tail(s), 1)
    ELSE UnsignedFloat(s, 1)

_num(x) ==
    IF x.k = "bool" THEN PyNone
    ELSE IF x.k = "int" THEN PyFloat(x.hi, 0)
    ELSE IF x.k \in {"float", "decimal"} THEN [x EXCEPT !.k = "float"]
    ELSE IF x.k = "str" THEN
        LET s == Strip(x.s)
        IN  IF Len(s) = 0 THEN PyNone
            ELSE IF isdigit(s) \/ (s[1] = "-" /\ isdigit(Tail(s)))
                THEN (IF s[1] = "-" THEN PyFloat(-DigitsVal(Tail(s)), 0)
                      ELSE PyFloat(DigitsVal(s), 0))
            ELSE ParseFloat(s)
    ELSE PyNone

(***************************************************************************)
(* math.isclose(a, b, rel_tol=1e-9, abs_tol=1e-9) on two floats:           *)
(*     |a - b| <= max(1e-9 * max(|a|, |b|), 1e-9).                         *)
(* In units of 10^-10 the right side is 10 * max(|a|, |b|, 1).  The model's*)
(* floats have |hi| < 10^8 and a fraction below 0.1, so two floats with    *)
(* different hi are at least 0.8 apart, which is beyond the tolerance, and *)
(* for equal hi the integer |lo difference| is within the tolerance        *)
(* exactly when it is at most 10 * max(|hi|, 1).                           *)
(***************************************************************************)
RelTolDigits == 9
AbsTolDigits == 9

\* isclose without the absolute tolerance (abs_tol left at its default 0)
isclose_rel_only(a, b) ==
    IF a.sp = "nan" \/ b.sp = "nan" THEN FALSE
    ELSE IF a = b THEN TRUE
    ELSE IF a.sp = "inf" \/ b.sp = "inf" THEN FALSE
    ELSE IF a.hi # b.hi THEN FALSE
    ELSE Abs(a.lo - b.lo) <= Pow10(10 - RelTolDigits) * Max2(Abs(a.hi), Abs(b.hi))

isclose(a, b) ==
    IF a.sp = "nan" \/ b.sp = "nan" THEN FALSE
    ELSE IF a = b THEN TRUE
    ELSE IF a.sp = "inf" \/ b.sp = "inf" THEN FALSE
    ELSE IF a.hi # b.hi THEN FALSE
    ELSE LET rel == Pow10(10 - RelTolDigits) * Max2(Abs(a.hi), Abs(b.hi))
             abs == Pow10(10 - AbsTolDigits)
         IN  Abs(a.lo - b.lo) <= Max2(rel, abs)

(***************************************************************************)
(* Python's == on the values scalar_equal can hold.                        *)
(***************************************************************************)
IsNumber(x) == x.k \in {"bool", "int", "float", "decimal"}

\* the number a bool, int, float or Decimal stands for
AsNumber(x) == IF x.k = "bool" THEN PyFloat(IF x.b THEN 1 ELSE 0, 0)
               ELSE IF x.k = "int" THEN PyFloat(x.hi, 0)
               ELSE [x EXCEPT !.k = "float"]

PyEq(a, b) ==
    IF IsNumber(a) /\ IsNumber(b)
        THEN AsNumber(a).sp # "nan" /\ AsNumber(a) = AsNumber(b)
    ELSE a.k = b.k /\ a = b

(***************************************************************************)
(* scalar_equal, rows_equal, rows_equal_unordered, rows_equal_sqlite_duckdb*)
(***************************************************************************)
AsBytesTuple(x) == IF x.k = "dict_bytes" THEN PyTuple(TxtBytes, x.s) ELSE x

scalar_equal(a, b) ==
    IF a.k = "none" /\ b.k = "none" THEN TRUE
    ELSE
        LET a1 == AsBytesTuple(a)
            b1 == AsBytesTuple(b)
        IN  IF a1.k = "tuple" \/ b1.k = "tuple" THEN PyEq(a1, b1)
            ELSE IF _num(a1) # PyNone /\ _num(b1) # PyNone
                THEN isclose(_num(a1), _num(b1))
            ELSE PyEq(a1, b1)

\* a JSON value of the answer log: a list of rows (each a list of cells), or not a list
JList(items) == [isList |-> TRUE, items |-> items]
JNotList == [isList |-> FALSE, items |-> <<>>]

rows_equal(expected, got) ==
    IF ~expected.isList THEN FALSE
    ELSE IF Len(expected.items) # Len(got) THEN FALSE
    ELSE \A i \in 1..Len(got) :
            /\ expected.items[i].isList
            /\ Len(expected.items[i].items) = Len(got[i])
            /\ \A j \in 1..Len(got[i]) : scalar_equal(expected.items[i].items[j], got[i][j])

\* Counter(_stable_key([_jsonable_scalar(v) for v in row]) for row in rows)
RowKey(row) == _stable_key([j \in 1..Len(row) |-> _jsonable_scalar(row[j])])

\* a set of keys in place of the Counter: multiplicities are lost
_rows_as_counter_set(rows) ==
    LET keys == {RowKey(rows[i]) : i \in 1..Len(rows)}
    IN  [k \in keys |-> 1]

_rows_as_counter(rows) ==
    LET keys == {RowKey(rows[i]) : i \in 1..Len(rows)}
    IN  [k \in keys |-> Cardinality({i \in 1..Len(rows) : RowKey(rows[i]) = k})]

rows_equal_unordered(expected, got) ==
    IF ~expected.isList THEN FALSE
    ELSE IF \E i \in 1..Len(expected.items) : ~expected.items[i].isList THEN FALSE
    ELSE _rows_as_counter([i \in 1..Len(expected.items) |-> expected.items[i].items])
            = _rows_as_counter(got)

rows_equal_sqlite_duckdb(sqlite_rows, duck_rows, unordered) ==
    IF ~unordered THEN
        /\ Len(sqlite_rows) = Len(duck_rows)
        /\ \A i \in 1..Len(duck_rows) :
            /\ Len(sqlite_rows[i]) = Len(duck_rows[i])
            /\ \A j \in 1..Len(duck_rows[i]) : scalar_equal(sqlite_rows[i][j], duck_rows[i][j])
    ELSE _rows_as_counter(sqlite_rows) = _rows_as_counter(duck_rows)

(***************************************************************************)
(* Column references.  A reference is a sequence of tokens: a word (a      *)
(* maximal run of [A-Za-z0-9_]) or a single other character.  A table or   *)
(* column name is a sequence of tokens too.                                *)
(***************************************************************************)
\* the token of the back-tick character
Backtick == "BACKTICK"

Words == {"frpm", "FRPM", "fprm", "nosuch", "a", "A", "zz", "Academic", "Year",
          "academic", "year"}

IsWord(tok) == tok \in Words

\* str.lower() of one token
LowerTok(tok) == CASE tok = "FRPM" -> "frpm"
                   [] tok = "A" -> "a"
                   [] tok = "Academic" -> "academic"
                   [] tok = "Year" -> "year"
                   [] OTHER -> tok

lower(name) == [i \in 1..Len(name) |-> LowerTok(name[i])]

RECURSIVE StripTok(_, _)
\* str.strip(chars) on tokens
StripTok(name, chars) ==
    IF Len(name) > 0 /\ name[1] \in chars THEN StripTok(Tail(name), chars)
    ELSE IF Len(name) > 0 /\ name[Len(name)] \in chars
        THEN StripTok(SubSeq(name, 1, Len(name) - 1), chars)
    ELSE name

Min(S) == CHOOSE x \in S : \A y \in S : x <= y

\* PAIR_RE.finditer(expr) from token i on: word.`text` or word.word, leftmost first
RECURSIVE FindPairs(_, _)
FindPairs(e, i) ==
    IF i + 2 > Len(e) THEN <<>>
    ELSE IF IsWord(e[i]) /\ e[i + 1] = "." THEN
        LET ticks == {j \in (i + 3)..Len(e) : e[j] = Backtick}
        IN  IF e[i + 2] = Backtick /\ ticks # {} /\ Min(ticks) > i + 3 THEN
                <<[table |-> StripTok(<<e[i]>>, {" "}),
                   col |-> StripTok(SubSeq(e, i + 3, Min(ticks) - 1), {" "})]>>
                \o FindPairs(e, Min(ticks) + 1)
            ELSE IF IsWord(e[i + 2]) THEN
                <<[table |-> <<e[i]>>, col |-> <<e[i + 2]>>]>> \o FindPairs(e, i + 3)
            ELSE FindPairs(e, i + 1)
    ELSE FindPairs(e, i + 1)

_iter_pairs(expr) ==
    LET matches == FindPairs(expr, 1)
        dots == {i \in 1..Len(expr) : expr[i] = "."}
    IN  IF Len(matches) = 0 THEN
            (IF dots # {} THEN
                <<[table |-> StripTok(SubSeq(expr, 1, Min(dots) - 1), {" "}),
                   col |-> StripTok(StripTok(SubSeq(expr, Min(dots) + 1, Len(expr)), {" "}),
                                    {Backtick})]>>
             ELSE <<>>)
        ELSE SelectSeq(matches, LAMBDA m : Len(m.table) > 0 /\ Len(m.col) > 0)

\* every (table, column) pair of the references, in the order the loops visit them
RECURSIVE AllPairs(_)
AllPairs(columns) ==
    IF Len(columns) = 0 THEN <<>>
    ELSE _iter_pairs(Head(columns)) \o AllPairs(Tail(columns))

\* no alias is known
table_aliases_none(t) == t
table_aliases(t) == IF t = <<"fprm">> THEN <<"frpm">> ELSE t

(***************************************************************************)
(* The database: one table, frpm, with the columns a and "Academic Year".  *)
(* A cell is [k, n]: NULL, the integer n, the text number n (0 is the      *)
(* empty text), the text __DROPPED__n, or a date / time literal.  A row is *)
(* [rowid, a, b]; the table is the set of its rows.                        *)
(***************************************************************************)
TableName == <<"frpm">>
ColA == <<"a">>
ColB == <<"Academic", " ", "Year">>

TInteger == <<"I", "N", "T", "E", "G", "E", "R">>
TText == <<"T", "E", "X", "T">>
TDate == <<"D", "A", "T", "E">>

Cell(k, n) == [k |-> k, n |-> n]
SqlNull == Cell("null", 0)

\* x in t, for two texts
Contains(t, x) ==
    \E i \in 0..(Len(t) - Len(x)) : \A j \in 1..Len(x) : t[i + j] = x[j]

NumericMarks ==
    { <<"I", "N", "T">>, <<"R", "E", "A", "L">>, <<"F", "L", "O", "A">>,
      <<"D", "O", "U", "B">>, <<"N", "U", "M">>, <<"D", "E", "C">>, <<"B", "O", "O", "L">> }

IsNumericType(t) == \E x \in NumericMarks : Contains(t, x)

\* _list_tables / _duck_list_tables: lower-cased name -> name
table_map(t) == IF t = lower(TableName) THEN TableName ELSE <<>>

\* _table_info / _duck_table_info: the column key of a lower-cased column name
col_map(c) == IF c = lower(ColA) THEN "a" ELSE IF c = lower(ColB) THEN "b" ELSE "none"

_resolve_table_name(table_raw) ==
    table_map(table_aliases(lower(StripTok(StripTok(StripTok(table_raw, {" "}), {"\""}), {Backtick}))))

_empty_value(ci) == IF IsNumericType(ci.type) THEN Cell("int", 0) ELSE Cell("text", 0)

_duck_empty_value(type_s) ==
    IF IsNumericType(type_s) \/ Contains(type_s, <<"H", "U", "G", "E", "I", "N", "T">>)
        THEN Cell("int", 0)
    ELSE IF Contains(type_s, TDate) THEN Cell("date", 0)
    ELSE IF Contains(type_s, <<"T", "I", "M", "E">>) THEN Cell("datetime", 0)
    ELSE Cell("text", 0)

ColOf(r, c) == IF c = "a" THEN r.a ELSE r.b

\* INTEGER PRIMARY KEY of a rowid table is the rowid itself (SQLite)
IsRowidAlias(engine, sch, c) ==
    engine = "sqlite" /\ ~sch.norowid /\ sch[c].pk /\ sch[c].type = TInteger

SetCol(r, c, v, alias) ==
    IF c = "a" THEN [r EXCEPT !.a = v, !.rowid = IF alias THEN v.n ELSE @]
    ELSE [r EXCEPT !.b = v]

IsUniqueCol(ci) == ci.pk \/ ci.unique

\* UPDATE t SET c = NULL is rejected: NOT NULL (a DuckDB primary key is NOT NULL),
\* or a rowid alias ("datatype mismatch"); an empty table rejects nothing
NullRejected(engine, sch, c, rows) ==
    /\ rows # {}
    /\ \/ sch[c].notnull
       \/ (engine = "duckdb" /\ sch[c].pk)
       \/ (engine = "sqlite" /\ sch.norowid /\ sch[c].pk)
       \/ IsRowidAlias(engine, sch, c)

\* UPDATE t SET c = v with one value for every row: [ok, rows]
UpdateAll(engine, sch, c, rows, v) ==
    IF (v.k = "null" /\ NullRejected(engine, sch, c, rows))
       \/ (v.k # "null" /\ IsUniqueCol(sch[c]) /\ Cardinality(rows) >= 2)
    THEN [ok |-> FALSE, rows |-> rows]
    ELSE [ok |-> TRUE,
          rows |-> {SetCol(r, c, v, IsRowidAlias(engine, sch, c)) : r \in rows}]

\* SQLite's UPDATE t SET c = f(rowid): row by row in rowid order, the uniqueness of
\* c checked at each row against the rows as they then are; a conflict aborts the
\* statement and leaves the table as it was
\* the value of the per-row expression: -rowid, rowid, or printf('__DROPPED__%d', rowid)
RowExpr(expr, rowid) ==
    IF expr = "-rowid" THEN Cell("int", -rowid)
    ELSE IF expr = "rowid" THEN Cell("int", rowid)
    ELSE Cell("dropped", rowid)

RECURSIVE UpdatePerRow(_, _, _, _, _, _)
UpdatePerRow(sch, c, orig, done, todo, expr) ==
    IF todo = {} THEN [ok |-> TRUE, rows |-> done]
    ELSE LET r == CHOOSE x \in todo : \A y \in todo : x.rowid <= y.rowid
             v == RowExpr(expr, r.rowid)
         IN  IF IsUniqueCol(sch[c]) /\ \E o \in done \cup (todo \ {r}) : ColOf(o, c) = v
             THEN [ok |-> FALSE, rows |-> orig]
             ELSE UpdatePerRow(sch, c, orig,
                               done \cup {SetCol(r, c, v, IsRowidAlias("sqlite", sch, c))},
                               todo \ {r}, expr)

\* _can_use_rowid: SELECT rowid fails on a WITHOUT ROWID table
_can_use_rowid(sch) == ~sch.norowid

\* _apply_unique_dummy: [ok, rows]
_apply_unique_dummy(sch, c, rows) ==
    IF ~_can_use_rowid(sch) THEN [ok |-> FALSE, rows |-> rows]
    ELSE IF IsNumericType(sch[c].type) THEN
        (IF sch[c].pk /\ Contains(sch[c].type, <<"I", "N", "T">>)
         THEN UpdatePerRow(sch, c, rows, {}, rows, "-rowid")
         ELSE UpdatePerRow(sch, c, rows, {}, rows, "rowid"))
    ELSE UpdatePerRow(sch, c, rows, {}, rows, "printf")

\* the column takes the per-row branch of _apply_nullify
NeedsUniqueDummy(sch, c, unique_cols) ==
    sch[c].notnull /\ (sch[c].pk \/ c \in unique_cols)

\* _unique_cols: the columns of the UNIQUE indexes (a primary key other than the
\* rowid alias has one too)
_unique_cols(sch) ==
    {c \in {"a", "b"} : sch[c].unique \/ (sch[c].pk /\ ~IsRowidAlias("sqlite", sch, c))}

\* the connection the updates run on is opened on the destination path
ConnPathSource(src, dst) == src
ConnPath(src, dst) == dst

\* the return code of process_db / nullify_columns_in_duckdb
ReturnCodeZero(failed) == 0
ReturnCode(failed) == IF failed = 0 THEN 0 ELSE 2

(***************************************************************************)
(* State.                                                                  *)
(***************************************************************************)
VARIABLES
    \* one call of scalar_equal: the operands, the verdict, the position
    sa, sb, sres, spc,
    \* calls of rows_equal_unordered on reordered arguments
    rexp, rgot, rfirst, rlast, rpermuted, rpc,
    \* one call of process_db / nullify_columns_in_duckdb: the engine, the schema,
    \* the source and destination paths, the database files, the column references,
    \* the position in the pairs, the counters, the return code, the last outcome
    nengine, nschema, nsrc, ndst, nfiles, nrefs, nidx, napplied, nfailed, nmissing,
    nrc, npc, nlast,
    \* one run of main: the options, the corpus, the pass and the position in it,
    \* the pass's by_db, compatible and compatible_records, phase 1's compatible and
    \* baseline_records, still_ok, the compatibility log, the outcome of the last
    \* record, and for each pass the keys counted in total and in correct
    eargs, ecorpus, epass, eidx, eby_db, elcompatible, elrecords, ecompatible,
    ebaseline_records, estill_ok, elog, elast, ecounted, ecorrect,
    \* the database loop of a main: the program, --db, the keys of the column-drop
    \* mapping, the databases whose source file exists, the db_ids still to visit,
    \* exit_code, each visited database's code, the databases whose destination was
    \* written, the position, the process exit status
    dcli, donly, dpickle, dsrcs, dqueue, dexit_code, drcs, dwritten, dpc, dstatus,
    \* calls of convert_sqlite_to_duckdb and apply_db_fixes on one database: the
    \* database id, the source's tables, the target file, force, the position, the
    \* number of calls, the function called, the target before the call, what the
    \* importer did, what the fallback did, what the patches did
    mdb, msource, mtarget, mforce, mpc, mcalls, mkind, mbefore, mprimary, mfallback, mfix,
    \* the selection of the corpus files: the program, the names in the questions
    \* directory, each file's rows, the files kept, the position
    ftool, fdir, fcontent, fout, fpc,
    \* one run of main of sqlite_execute.py: the options, the rows of the corpus
    \* files, the databases whose file exists, the file and the row the loops are
    \* at, gold_cache, the output files, how often each (db_path, gold_sql) was
    \* executed, the last row's outcome, the position
    xargs, xfiles, xexists, xfile, xrow, xcache, xout, xexec, xlast, xpc,
    \* the names of the two corpus files that run processes
    xnames

VARIABLES
    \* one call of rewrite_for_duckdb: the SQL text as tokens, --rewrite, the text
    \* the query is executed with, the position
    wsql, wrewrite, wout, wpc

VARIABLES
    \* the connections of one evaluation pass: the program and its options, the
    \* lines read, the line and the step the pass is at, base_conns and drop_conns,
    \* the number of open connections of each path, the paths connected to so far,
    \* the validator's counters, the position
    vargs, vlines, vidx, vstep, vbase_conns, vdrop_conns, vopen, vever, vstats, vpc

VARIABLES
    \* the comparisons of one record: the reference rows, the rows DuckDB returned,
    \* the verdicts against the gold answer and against SQLite's rows
    cexp, cgot, cgold, clive

VARIABLES
    \* the question ids of one corpus file: the file's name and rows, --db, the
    \* ids the exporter wrote, the exporter's row and position, the ids of each
    \* phase of the harness, the phase and its row, phase 1's compatible set
    qname, qrows, qonly, qexport, qxidx, qxpc, qharness, qpass, qhidx, qcompatible

scalarVars == <<sa, sb, sres, spc>>
rowVars == <<rexp, rgot, rfirst, rlast, rpermuted, rpc>>
nullVars == <<nengine, nschema, nsrc, ndst, nfiles, nrefs, nidx, napplied, nfailed,
              nmissing, nrc, npc, nlast>>
evalVars == <<eargs, ecorpus, epass, eidx, eby_db, elcompatible, elrecords, ecompatible,
              ebaseline_records, estill_ok, elog, elast, ecounted, ecorrect>>
dropVars == <<dcli, donly, dpickle, dsrcs, dqueue, dexit_code, drcs, dwritten, dpc, dstatus>>
migVars == <<mdb, msource, mtarget, mforce, mpc, mcalls, mkind, mbefore, mprimary,
             mfallback, mfix>>
filterVars == <<ftool, fdir, fcontent, fout, fpc>>
exportVars == <<xargs, xfiles, xexists, xfile, xrow, xcache, xout, xexec, xlast, xpc,
                xnames>>
moreVars == <<dropVars, migVars, filterVars, exportVars>>
rewriteVars == <<wsql, wrewrite, wout, wpc>>
connVars == <<vargs, vlines, vidx, vstep, vbase_conns, vdrop_conns, vopen, vever, vstats,
              vpc>>
verdictVars == <<cexp, cgot, cgold, clive>>
idVars == <<qname, qrows, qonly, qexport, qxidx, qxpc, qharness, qpass, qhidx, qcompatible>>
lastVars == <<rewriteVars, connVars, verdictVars, idVars>>
vars == <<scalarVars, rowVars, nullVars, evalVars, moreVars, lastVars>>
notScalar == <<rowVars, nullVars, evalVars, moreVars, lastVars>>
notRows == <<scalarVars, nullVars, evalVars, moreVars, lastVars>>
notNull == <<scalarVars, rowVars, evalVars, moreVars, lastVars>>
notEval == <<scalarVars, rowVars, nullVars, moreVars, lastVars>>
firstVars == <<scalarVars, rowVars, nullVars, evalVars>>
notDrop == <<firstVars, migVars, filterVars, exportVars, lastVars>>
notMig == <<firstVars, dropVars, filterVars, exportVars, lastVars>>
notFilter == <<firstVars, dropVars, migVars, exportVars, lastVars>>
notExport == <<firstVars, dropVars, migVars, filterVars, lastVars>>
notRewrite == <<firstVars, moreVars, connVars, verdictVars, idVars>>
notConn == <<firstVars, moreVars, rewriteVars, verdictVars, idVars>>
notVerdict == <<firstVars, moreVars, rewriteVars, connVars, idVars>>
notIds == <<firstVars, moreVars, rewriteVars, connVars, verdictVars>>

(***************************************************************************)
(* Inputs.                                                                 *)
(***************************************************************************)
\* native values as an engine driver returns them
NativeSamples ==
    { PyNone, PyBool(TRUE), PyBool(FALSE),
      PyInt(0), PyInt(1), PyInt(3), PyInt(2014),
      PyFloat(0, 0), PyFloat(1, 0), PyFloat(0, 1), PyFloat(0, 100), PyFloat(2014, 0),
      PyNaN, PyInf(1),
      PyStr(<<"3">>), PyStr(<<" ", "3">>), PyStr(<<"1", ".", "0">>), PyStr(<<"-", "3">>),
      PyStr(<<"a", "b", "c">>), PyStr(<<"n", "a", "n">>), PyStr(<<"i", "n", "f">>),
      PyStr(<<>>),
      PyDecimal(1, 0), PyBytes(<<1, 2>>), PyBytes(<<255>>), PyDate(2014, 1, 2),
      PyObj(<<"U", "U", "I", "D">>, <<"u", "1">>) }

\* result rows as an engine driver returns them
RowSamples ==
    { <<PyInt(1)>>, <<PyFloat(1, 0)>>, <<PyInt(2), PyStr(<<"a">>)>> }

RECURSIVE SeqsUpTo(_, _)
SeqsUpTo(S, n) ==
    IF n = 0 THEN {<<>>}
    ELSE LET shorter == SeqsUpTo(S, n - 1)
         IN  shorter \cup {Append(q, x) : q \in {r \in shorter : Len(r) = n - 1}, x \in S}

Swap(q, i) == [j \in 1..Len(q) |-> IF j = i THEN q[i + 1] ELSE IF j = i + 1 THEN q[i] ELSE q[j]]

\* the stored answer for result rows: a JSON list of lists of canonical values
AsAnswer(rows) == JList([i \in 1..Len(rows) |-> JList(_jsonable_rows(rows)[i])])

(***************************************************************************)
(* SpecScalar: scalar_equal on the canonical forms of two native values.   *)
(***************************************************************************)
ScalarIdle == sa = PyNone /\ sb = PyNone /\ sres = FALSE /\ spc = "idle"
RowsIdle == /\ rexp = <<>> /\ rgot = <<>> /\ rfirst = FALSE /\ rlast = FALSE
            /\ rpermuted = FALSE /\ rpc = "idle"

NoOutcome == [c |-> "none", outcome |-> "none", rejected |-> FALSE]
NoFile == [exists |-> FALSE, rows |-> {}]
NullIdle ==
    /\ nengine = "sqlite" /\ nschema = <<>> /\ nsrc = "p1" /\ ndst = "p2"
    /\ nfiles = [p \in {"p1", "p2"} |-> NoFile] /\ nrefs = <<>> /\ nidx = 0
    /\ napplied = 0 /\ nfailed = 0 /\ nmissing = 0 /\ nrc = 0 /\ npc = "idle"
    /\ nlast = NoOutcome

DbIds == {"db1", "db2"}
Passes == {"p1", "p2", "p3"}

\* EvalStats()
EvalStats == [total |-> 0, correct |-> 0, exec_errors |-> 0, transpile_errors |-> 0,
              mismatches |-> 0]

NoArgs == [compare_to |-> "gold", unordered |-> FALSE, drop_columns |-> FALSE,
           out_compatible |-> FALSE, out_broken |-> FALSE, only_db |-> ""]
NoRecord == [kind |-> "none", got |-> <<>>, ok |-> FALSE, correct |-> 0, mismatches |-> 0]

EvalIdle ==
    /\ eargs = NoArgs /\ ecorpus = <<>> /\ epass = "idle" /\ eidx = 0
    /\ eby_db = [d \in DbIds |-> EvalStats]
    /\ elcompatible = {} /\ elrecords = <<>> /\ ecompatible = {}
    /\ ebaseline_records = <<>> /\ estill_ok = {} /\ elog = <<>> /\ elast = NoRecord
    /\ ecounted = [p \in Passes |-> {}] /\ ecorrect = [p \in Passes |-> {}]

DropIdle ==
    /\ dcli = "preprocess" /\ donly = "" /\ dpickle = {} /\ dsrcs = {} /\ dqueue = <<>>
    /\ dexit_code = 0 /\ drcs = <<>> /\ dwritten = {} /\ dpc = "idle" /\ dstatus = 0

NoTarget == [exists |-> FALSE, tables |-> {}, attached |-> FALSE]
NoPrimary == [ran |-> FALSE, status |-> 0, file |-> NoTarget]
NoFallback == [ran |-> FALSE, opened |-> NoTarget, raised |-> FALSE]

MigIdle ==
    /\ mdb = "other" /\ msource = {} /\ mtarget = NoTarget /\ mforce = FALSE
    /\ mpc = "idle" /\ mcalls = 0 /\ mkind = "none" /\ mbefore = NoTarget
    /\ mprimary = NoPrimary /\ mfallback = NoFallback /\ mfix = "none"

FilterIdle ==
    /\ ftool = "pipeline" /\ fdir = {} /\ fcontent = <<>> /\ fout = <<>> /\ fpc = "idle"

NoExportArgs == [skip_missing_db |-> FALSE, allow_errors |-> FALSE, dry_run |-> FALSE]

ExportIdle ==
    /\ xargs = NoExportArgs /\ xfiles = <<>> /\ xexists = {} /\ xfile = 0 /\ xrow = 0
    /\ xcache = <<>> /\ xout = <<>> /\ xexec = <<>> /\ xlast = "none" /\ xpc = "idle"
    /\ xnames = <<>>

RewriteIdle == wsql = <<>> /\ wrewrite = FALSE /\ wout = <<>> /\ wpc = "idle"

MoreIdle == DropIdle /\ MigIdle /\ FilterIdle /\ ExportIdle
NoConnArgs == [tool |-> "validate", compare_to |-> "gold", base_dir |-> "duckdb",
               drop_dir |-> "duckdb_dropped"]
ConnIdle ==
    /\ vargs = NoConnArgs /\ vlines = <<>> /\ vidx = 0 /\ vstep = "idle"
    /\ vbase_conns = {} /\ vdrop_conns = {} /\ vopen = <<>> /\ vever = {}
    /\ vstats = <<>> /\ vpc = "idle"

VerdictIdle == cexp = <<>> /\ cgot = <<>> /\ cgold = <<>> /\ clive = <<>>

IdsIdle ==
    /\ qname = <<>> /\ qrows = <<>> /\ qonly = "" /\ qexport = <<>> /\ qxidx = 0
    /\ qxpc = "idle" /\ qharness = <<>> /\ qpass = "idle" /\ qhidx = 0 /\ qcompatible = {}

LastIdle == RewriteIdle /\ ConnIdle /\ VerdictIdle /\ IdsIdle
FirstIdle == ScalarIdle /\ RowsIdle /\ NullIdle /\ EvalIdle

InitScalar ==
    /\ sa \in NativeSamples
    /\ sb \in NativeSamples
    /\ sres = FALSE
    /\ spc = "native"
    /\ RowsIdle
    /\ NullIdle
    /\ EvalIdle
    /\ MoreIdle
    /\ LastIdle

Canonicalize ==
    /\ spc = "native"
    /\ sa' = _jsonable_scalar(sa)
    /\ sb' = _jsonable_scalar(sb)
    /\ spc' = "canonical"
    /\ UNCHANGED <<sres, notScalar>>

CompareScalars ==
    /\ spc = "canonical"
    /\ sres' = scalar_equal(sa, sb)
    /\ spc' = "compared"
    /\ UNCHANGED <<sa, sb, notScalar>>

NextScalar == Canonicalize \/ CompareScalars

SpecScalar == InitScalar /\ [][NextScalar]_vars

(***************************************************************************)
(* SpecRows: rows_equal_unordered, called again after the rows of either   *)
(* argument were reordered.                                                *)
(***************************************************************************)
InitRows ==
    /\ rexp \in SeqsUpTo(RowSamples, MaxRows)
    /\ rgot \in SeqsUpTo(RowSamples, MaxRows)
    /\ rfirst = FALSE
    /\ rlast = FALSE
    /\ rpermuted = FALSE
    /\ rpc = "start"
    /\ ScalarIdle
    /\ NullIdle
    /\ EvalIdle
    /\ MoreIdle
    /\ LastIdle

CompareUnordered ==
    /\ rpc \in {"start", "permuted"}
    /\ rlast' = rows_equal_unordered(AsAnswer(rexp), rgot)
    /\ rfirst' = IF rpc = "start" THEN rows_equal_unordered(AsAnswer(rexp), rgot) ELSE rfirst
    /\ rpc' = "compared"
    /\ UNCHANGED <<rexp, rgot, rpermuted, notRows>>

PermuteExpected ==
    /\ rpc = "compared"
    /\ \E i \in 1..(Len(rexp) - 1) : rexp' = Swap(rexp, i)
    /\ rpermuted' = TRUE
    /\ rpc' = "permuted"
    /\ UNCHANGED <<rgot, rfirst, rlast, notRows>>

PermuteGot ==
    /\ rpc = "compared"
    /\ \E i \in 1..(Len(rgot) - 1) : rgot' = Swap(rgot, i)
    /\ rpermuted' = TRUE
    /\ rpc' = "permuted"
    /\ UNCHANGED <<rexp, rfirst, rlast, notRows>>

NextRows == CompareUnordered \/ PermuteExpected \/ PermuteGot

SpecRows == InitRows /\ [][NextRows]_vars

(***************************************************************************)
(* SpecNullify: one call of the column nullification mutator, process_db   *)
(* (SQLite) or nullify_columns_in_duckdb (DuckDB).                         *)
(***************************************************************************)
Paths == {"p1", "p2"}

ColInfo(name, type, notnull, pk, unique) ==
    [name |-> name, type |-> type, notnull |-> notnull, pk |-> pk, unique |-> unique]

\* the schemas: column a of either type under every constraint, "Academic Year" a
\* NOT NULL DATE; WITHOUT ROWID needs a primary key, and a primary key of DuckDB or
\* of a WITHOUT ROWID table is NOT NULL
SchemaSamples(engine) ==
    { sch \in { [a |-> ColInfo(ColA, t, nn, pk, uq),
                 b |-> ColInfo(ColB, TDate, TRUE, FALSE, FALSE),
                 norowid |-> nr] :
                t \in {TInteger, TText}, nn \in BOOLEAN, pk \in BOOLEAN,
                uq \in BOOLEAN, nr \in BOOLEAN } :
        /\ ~(sch.a.pk /\ sch.a.unique)
        /\ sch.norowid => (engine = "sqlite" /\ sch.a.pk /\ sch.a.notnull)
        /\ (engine = "duckdb" /\ sch.a.pk) => sch.a.notnull }

AValues(t) == IF t = TInteger THEN {Cell("int", 1), Cell("int", 2)}
              ELSE {Cell("text", 1), Cell("dropped", 1)}

BValue == Cell("text", 1)

\* the tables that satisfy the schema: rowids 1..n, or the key itself under a rowid
\* alias; a unique column holds distinct values
TableContents(engine, sch) ==
    IF IsRowidAlias(engine, sch, "a") THEN
        { {[rowid |-> v.n, a |-> v, b |-> BValue] : v \in S} :
            S \in {T \in SUBSET AValues(sch.a.type) : Cardinality(T) <= MaxTableRows} }
    ELSE
        UNION { { {[rowid |-> i, a |-> f[i], b |-> BValue] : i \in 1..n} :
                    f \in {g \in [1..n -> AValues(sch.a.type)] :
                            IsUniqueCol(sch.a) => \A i, j \in 1..n : i # j => g[i] # g[j]} } :
                n \in 0..MaxTableRows }

RefSamples ==
    { <<"frpm", ".", "a">>,
      <<"fprm", ".", Backtick, "Academic", " ", "Year", Backtick>>,
      <<"nosuch", ".", "a">>,
      <<"FRPM", ".", "zz">> }

InitNullify ==
    /\ nengine \in {"sqlite", "duckdb"}
    /\ nschema \in SchemaSamples(nengine)
    /\ nsrc = "p1"
    /\ ndst \in Paths
    /\ \E rows \in TableContents(nengine, nschema) :
        nfiles = [p \in Paths |-> IF p = "p1" THEN [exists |-> TRUE, rows |-> rows] ELSE NoFile]
    /\ nrefs \in SeqsUpTo(RefSamples, MaxRefs)
    /\ nidx = 0
    /\ napplied = 0 /\ nfailed = 0 /\ nmissing = 0
    /\ nrc = 0
    /\ npc = "start"
    /\ nlast = NoOutcome
    /\ ScalarIdle
    /\ RowsIdle
    /\ EvalIdle
    /\ MoreIdle
    /\ LastIdle

\* shutil.copy2(src, dst), which raises SameFileError for one and the same file,
\* then the connection is opened
CopySource ==
    /\ npc = "start"
    /\ IF nsrc = ndst
       THEN npc' = "raised" /\ UNCHANGED <<nfiles, nidx>>
       ELSE /\ nfiles' = [nfiles EXCEPT ![ndst] = nfiles[nsrc]]
            /\ nidx' = 1
            /\ npc' = "loop"
    /\ UNCHANGED <<nengine, nschema, nsrc, ndst, nrefs, napplied, nfailed, nmissing, nrc,
                   nlast, notNull>>

Pairs == AllPairs(nrefs)
CurPair == Pairs[nidx]
CurTable == _resolve_table_name(CurPair.table)
CurCol == col_map(lower(CurPair.col))
ConnRows == nfiles[ConnPath(nsrc, ndst)].rows
InLoop == npc = "loop" /\ nidx <= Len(Pairs)
Resolved == InLoop /\ CurTable # <<>> /\ CurCol # "none"

NullFrame == UNCHANGED <<nengine, nschema, nsrc, ndst, nrefs, nrc, npc, notNull>>

\* the table is not in table_map
PairMissingTable ==
    /\ InLoop
    /\ CurTable = <<>>
    /\ nmissing' = nmissing + 1
    /\ nidx' = nidx + 1
    /\ nlast' = [c |-> "none", outcome |-> "missing", rejected |-> FALSE]
    /\ UNCHANGED <<nfiles, napplied, nfailed>>
    /\ NullFrame

\* the column is not in the table's col_map
PairMissingColumn ==
    /\ InLoop
    /\ CurTable # <<>>
    /\ CurCol = "none"
    /\ nmissing' = nmissing + 1
    /\ nidx' = nidx + 1
    /\ nlast' = [c |-> "none", outcome |-> "missing", rejected |-> FALSE]
    /\ UNCHANGED <<nfiles, napplied, nfailed>>
    /\ NullFrame

\* UPDATE t SET c = NULL succeeds
PairSetNull ==
    /\ Resolved
    /\ ~NullRejected(nengine, nschema, CurCol, ConnRows)
    /\ nfiles' = [nfiles EXCEPT ![ConnPath(nsrc, ndst)].rows =
                    UpdateAll(nengine, nschema, CurCol, ConnRows, SqlNull).rows]
    /\ napplied' = napplied + 1
    /\ nidx' = nidx + 1
    /\ nlast' = [c |-> CurCol, outcome |-> "null", rejected |-> FALSE]
    /\ UNCHANGED <<nfailed, nmissing>>
    /\ NullFrame

\* SQLite only: NULL was rejected and the column is NOT NULL and a primary key or in
\* a UNIQUE index: _apply_unique_dummy
PairUniqueDummy ==
    /\ Resolved
    /\ nengine = "sqlite"
    /\ NullRejected(nengine, nschema, CurCol, ConnRows)
    /\ NeedsUniqueDummy(nschema, CurCol, _unique_cols(nschema))
    /\ LET res == _apply_unique_dummy(nschema, CurCol, ConnRows)
       IN  /\ nfiles' = [nfiles EXCEPT ![ConnPath(nsrc, ndst)].rows = res.rows]
           /\ napplied' = IF res.ok THEN napplied + 1 ELSE napplied
           /\ nfailed' = IF res.ok THEN nfailed ELSE nfailed + 1
           /\ nlast' = [c |-> CurCol, outcome |-> IF res.ok THEN "dummy" ELSE "failed",
                        rejected |-> TRUE]
    /\ nidx' = nidx + 1
    /\ UNCHANGED nmissing
    /\ NullFrame

\* NULL was rejected: one empty value for every row (_empty_value, _duck_empty_value)
PairEmptyValue ==
    /\ Resolved
    /\ NullRejected(nengine, nschema, CurCol, ConnRows)
    /\ nengine = "sqlite" => ~NeedsUniqueDummy(nschema, CurCol, _unique_cols(nschema))
    /\ LET empty == IF nengine = "sqlite" THEN _empty_value(nschema[CurCol])
                    ELSE _duck_empty_value(nschema[CurCol].type)
           res == UpdateAll(nengine, nschema, CurCol, ConnRows, empty)
       IN  /\ nfiles' = [nfiles EXCEPT ![ConnPath(nsrc, ndst)].rows = res.rows]
           /\ napplied' = IF res.ok THEN napplied + 1 ELSE napplied
           /\ nfailed' = IF res.ok THEN nfailed ELSE nfailed + 1
           /\ nlast' = [c |-> CurCol, outcome |-> IF res.ok THEN "empty" ELSE "failed",
                        rejected |-> TRUE]
    /\ nidx' = nidx + 1
    /\ UNCHANGED nmissing
    /\ NullFrame

\* the loops are over: commit, return 0 if failed == 0 else 2
FinishNullify ==
    /\ npc = "loop"
    /\ nidx > Len(Pairs)
    /\ nrc' = ReturnCode(nfailed)
    /\ npc' = "done"
    /\ UNCHANGED <<nengine, nschema, nsrc, ndst, nfiles, nrefs, nidx, napplied, nfailed,
                   nmissing, nlast, notNull>>

NextNullify ==
    \/ CopySource
    \/ PairMissingTable
    \/ PairMissingColumn
    \/ PairSetNull
    \/ PairUniqueDummy
    \/ PairEmptyValue
    \/ FinishNullify

SpecNullify == InitNullify /\ [][NextNullify]_vars

(***************************************************************************)
(* SpecEvaluate: one run of main: phase 1 on the migrated databases, the   *)
(* column drop, phase 2 on the baseline-compatible subset, and the third   *)
(* pass of --out-broken.                                                   *)
(***************************************************************************)
\* the characters of the texts that get compared, in code point order
AsciiOrder ==
    <<" ", "\"", ",", "-", ".", "0", "1", "2", "3", "4", "5", "6", "7", "8", "9", ":",
      "A", "B", "D", "E", "I", "N", "Q", "T", "X", "Y", "[", "]", "_",
      "a", "b", "c", "d", "e", "f", "i", "l", "n", "p", "r", "s", "t", "u", "y", "{", "}">>

Ord(c) == CHOOSE i \in 1..Len(AsciiOrder) : AsciiOrder[i] = c

RECURSIVE TextLess(_, _)
\* a < b on str
TextLess(a, b) ==
    IF Len(b) = 0 THEN FALSE
    ELSE IF Len(a) = 0 THEN TRUE
    ELSE IF a[1] = b[1] THEN TextLess(Tail(a), Tail(b))
    ELSE Ord(a[1]) < Ord(b[1])

RECURSIVE InsertByKey(_, _)
\* the row goes before the first row whose key is greater (the sort is stable)
InsertByKey(rows, row) ==
    IF rows = <<>> THEN <<row>>
    ELSE IF TextLess(_stable_key(row), _stable_key(rows[1])) THEN <<row>> \o rows
    ELSE <<rows[1]>> \o InsertByKey(Tail(rows), row)

RECURSIVE _canonicalize_jsonable_rows(_)
_canonicalize_jsonable_rows(rows) ==
    IF rows = <<>> THEN <<>>
    ELSE InsertByKey(_canonicalize_jsonable_rows(SubSeq(rows, 1, Len(rows) - 1)),
                     rows[Len(rows)])

\* db_id and qid = f"{base}:{row_idx}" as texts
DbText(db) == IF db = "db1" THEN <<"d", "b", "1">> ELSE <<"d", "b", "2">>
QidText(idx) == <<"Q", ":">> \o NatChars(idx)

\* (db_id, qid) < (db_id, qid) on tuples
KeyLess(k1, k2) ==
    \/ TextLess(DbText(k1[1]), DbText(k2[1]))
    \/ k1[1] = k2[1] /\ TextLess(QidText(k1[2]), QidText(k2[2]))

RECURSIVE sorted(_)
sorted(keys) ==
    IF keys = {} THEN <<>>
    ELSE LET k == CHOOSE x \in keys : \A y \in keys \ {x} : KeyLess(x, y)
         IN  <<k>> \o sorted(keys \ {k})

\* d[k] = v on a dict
Put(d, k, v) == [x \in DOMAIN d \cup {k} |-> IF x = k THEN v ELSE d[x]]

\* corpus rows: the database, whether transpile_sql accepts the gold SQL, and
\* whether the gold answers hold the question
RecordSamples ==
    { [db |-> "db1", sql |-> "good", gold |-> TRUE],
      [db |-> "db2", sql |-> "good", gold |-> TRUE],
      [db |-> "db1", sql |-> "bad", gold |-> TRUE],
      [db |-> "db1", sql |-> "good", gold |-> FALSE] }

\* the reference result of every question: the gold answer [[2014]], and the rows
\* SQLite returns
ReferenceRows == <<<<PyInt(2014)>>>>

\* expected.get(qid)
expected(rec) == IF rec.gold THEN AsAnswer(ReferenceRows) ELSE JNotList

\* what DuckDB returns
GotSamples == { <<<<PyInt(2014)>>>>, <<<<PyFloat(2014, 0)>>>>, <<<<PyInt(2015)>>>> }

ArgSamples ==
    [compare_to : {"gold", "sqlite"}, unordered : BOOLEAN, drop_columns : BOOLEAN,
     out_compatible : BOOLEAN, out_broken : BOOLEAN, only_db : {"", "db1"}]

InitEvaluate ==
    /\ eargs \in ArgSamples
    /\ ecorpus \in SeqsUpTo(RecordSamples, MaxRecords)
    /\ epass = "start"
    /\ eidx = 0
    /\ eby_db = [d \in DbIds |-> EvalStats]
    /\ elcompatible = {} /\ elrecords = <<>>
    /\ ecompatible = {} /\ ebaseline_records = <<>> /\ estill_ok = {}
    /\ elog = <<>>
    /\ elast = NoRecord
    /\ ecounted = [p \in Passes |-> {}]
    /\ ecorrect = [p \in Passes |-> {}]
    /\ ScalarIdle
    /\ RowsIdle
    /\ NullIdle
    /\ MoreIdle
    /\ LastIdle

\* --out-broken requires --drop-columns and --out-compatible
StartRun ==
    /\ epass = "start"
    /\ IF eargs.out_broken /\ (~eargs.drop_columns \/ ~eargs.out_compatible)
       THEN epass' = "fatal" /\ eidx' = eidx
       ELSE epass' = "p1" /\ eidx' = 1
    /\ UNCHANGED <<eargs, ecorpus, eby_db, elcompatible, elrecords, ecompatible,
                   ebaseline_records, estill_ok, elog, elast, ecounted, ecorrect, notEval>>

\* the arguments of the pass's call of _evaluate
record_compatible(pass) ==
    IF pass = "p1" THEN eargs.drop_columns \/ eargs.out_compatible ELSE pass = "p3"
capture_records(pass) == pass = "p1" /\ eargs.out_broken

\* restrict_to is not None and key not in restrict_to
RestrictedNever(pass, compatible, key) == FALSE
Restricted(pass, compatible, key) == pass # "p1" /\ key \notin compatible

CurRecord == ecorpus[eidx]
CurKey == <<CurRecord.db, eidx>>
InPass == epass \in Passes /\ eidx <= Len(ecorpus)

Skipped ==
    \/ eargs.only_db # "" /\ CurRecord.db # eargs.only_db
    \/ Restricted(epass, ecompatible, CurKey)
    \/ eargs.compare_to = "gold" /\ ~CurRecord.gold

Counted == ecounted' = [ecounted EXCEPT ![epass] = @ \cup {CurKey}]

PassFrame == UNCHANGED <<eargs, ecorpus, epass, ecompatible, ebaseline_records, estill_ok,
                         notEval>>

\* the row is for another database, outside restrict_to, or has no gold answer
RecordSkipped ==
    /\ InPass
    /\ Skipped
    /\ eidx' = eidx + 1
    /\ elast' = [NoRecord EXCEPT !.kind = "skipped"]
    /\ UNCHANGED <<eby_db, elcompatible, elrecords, elog, ecounted, ecorrect>>
    /\ PassFrame

\* --compare-to sqlite: the SQLite file is missing or the gold SQL raises
RecordReferenceError ==
    /\ InPass
    /\ ~Skipped
    /\ eargs.compare_to = "sqlite"
    /\ eby_db' = [eby_db EXCEPT ![CurRecord.db].total = @ + 1,
                                ![CurRecord.db].exec_errors = @ + 1]
    /\ Counted
    /\ eidx' = eidx + 1
    /\ elast' = [NoRecord EXCEPT !.kind = "error"]
    /\ UNCHANGED <<elcompatible, elrecords, elog, ecorrect>>
    /\ PassFrame

\* transpile_sql(gold_sql) raises
TranspileRaisesNever(rec) == FALSE
TranspileRaises(rec) == rec.sql = "bad"

\* except Exception: stats.transpile_errors += 1; stats.exec_errors += 1; continue
transpile_failed_uncounted(stats) == [stats EXCEPT !.transpile_errors = @ + 1]
transpile_failed(stats) ==
    [stats EXCEPT !.transpile_errors = @ + 1, !.exec_errors = @ + 1]

\* transpile_sql raises
RecordTranspileError ==
    /\ InPass
    /\ ~Skipped
    /\ TranspileRaises(CurRecord)
    /\ eby_db' = [eby_db EXCEPT
                    ![CurRecord.db] = transpile_failed([@ EXCEPT !.total = @ + 1])]
    /\ Counted
    /\ eidx' = eidx + 1
    /\ elast' = [NoRecord EXCEPT !.kind = "transpile error"]
    /\ UNCHANGED <<elcompatible, elrecords, elog, ecorrect>>
    /\ PassFrame

\* the DuckDB file is missing or the query raises
RecordExecError ==
    /\ InPass
    /\ ~Skipped
    /\ ~TranspileRaises(CurRecord)
    /\ eby_db' = [eby_db EXCEPT ![CurRecord.db].total = @ + 1,
                                ![CurRecord.db].exec_errors = @ + 1]
    /\ Counted
    /\ eidx' = eidx + 1
    /\ elast' = [NoRecord EXCEPT !.kind = "error"]
    /\ UNCHANGED <<elcompatible, elrecords, elog, ecorrect>>
    /\ PassFrame

\* the comparison of the record's expected rows with what DuckDB returned
Compare(rec, got) ==
    IF eargs.compare_to = "gold" THEN
        IF eargs.unordered THEN rows_equal_unordered(expected(rec), got)
        ELSE rows_equal(expected(rec), got)
    ELSE rows_equal_sqlite_duckdb(ReferenceRows, got, eargs.unordered)

\* the record of the compatibility log
LogRecord(rec, idx, got) ==
    [question_id |-> idx, db |-> rec.db,
     answer |-> _canonicalize_jsonable_rows(_jsonable_rows(got))]

\* DuckDB returned rows: compare, count, and record a match
RecordCompared ==
    /\ InPass
    /\ ~Skipped
    /\ ~TranspileRaises(CurRecord)
    /\ \E got \in GotSamples :
        LET ok == Compare(CurRecord, got)
            rec == LogRecord(CurRecord, eidx, got)
            keep == ok /\ record_compatible(epass)
        IN  /\ eby_db' = [eby_db EXCEPT
                            ![CurRecord.db].total = @ + 1,
                            ![CurRecord.db].correct = IF ok THEN @ + 1 ELSE @,
                            ![CurRecord.db].mismatches = IF ok THEN @ ELSE @ + 1]
            /\ ecorrect' = IF ok THEN [ecorrect EXCEPT ![epass] = @ \cup {CurKey}]
                           ELSE ecorrect
            /\ elcompatible' = IF keep THEN elcompatible \cup {CurKey} ELSE elcompatible
            /\ elrecords' = IF keep /\ eargs.out_compatible /\ eargs.out_broken
                               /\ capture_records(epass)
                            THEN Put(elrecords, CurKey, rec) ELSE elrecords
            /\ elog' = IF keep /\ eargs.out_compatible /\ ~eargs.out_broken
                       THEN Append(elog, rec) ELSE elog
            /\ elast' = [kind |-> "compared", got |-> got, ok |-> ok,
                         correct |-> IF ok THEN 1 ELSE 0,
                         mismatches |-> IF ok THEN 0 ELSE 1]
    /\ Counted
    /\ eidx' = eidx + 1
    /\ PassFrame

\* phase 1 returns: baseline_by_db, compatible, baseline_records
EndBaseline ==
    /\ epass = "p1"
    /\ eidx > Len(ecorpus)
    /\ ecompatible' = elcompatible
    /\ ebaseline_records' = elrecords
    /\ epass' = IF eargs.drop_columns THEN "drop" ELSE "done"
    /\ UNCHANGED <<eargs, ecorpus, eidx, eby_db, elcompatible, elrecords, estill_ok,
                   elog, elast, ecounted, ecorrect, notEval>>

\* --db names a database that columns_to_drop.pickle does not hold
DropColumnsUnknownDb ==
    /\ epass = "drop"
    /\ eargs.only_db # ""
    /\ \E cols_to_drop \in SUBSET DbIds : eargs.only_db \notin cols_to_drop
    /\ epass' = "fatal"
    /\ UNCHANGED <<eargs, ecorpus, eidx, eby_db, elcompatible, elrecords, ecompatible,
                   ebaseline_records, estill_ok, elog, elast, ecounted, ecorrect, notEval>>

\* the databases are copied and nullified; phase 2 starts with new accumulators
DropColumns ==
    /\ epass = "drop"
    /\ \E cols_to_drop \in SUBSET DbIds : eargs.only_db # "" => eargs.only_db \in cols_to_drop
    /\ epass' = "p2"
    /\ eidx' = 1
    /\ eby_db' = [d \in DbIds |-> EvalStats]
    /\ elcompatible' = {}
    /\ elrecords' = <<>>
    /\ UNCHANGED <<eargs, ecorpus, ecompatible, ebaseline_records, estill_ok, elog, elast,
                   ecounted, ecorrect, notEval>>

\* phase 2 returns; with --out-broken the third pass starts
EndDropped ==
    /\ epass = "p2"
    /\ eidx > Len(ecorpus)
    /\ IF eargs.out_broken /\ eargs.out_compatible
       THEN /\ epass' = "p3"
            /\ eidx' = 1
            /\ eby_db' = [d \in DbIds |-> EvalStats]
            /\ elcompatible' = {}
            /\ elrecords' = <<>>
       ELSE /\ epass' = "done"
            /\ UNCHANGED <<eidx, eby_db, elcompatible, elrecords>>
    /\ UNCHANGED <<eargs, ecorpus, ecompatible, ebaseline_records, estill_ok, elog, elast,
                   ecounted, ecorrect, notEval>>

\* broken = compatible - still_ok
BrokenAll(compatible, still_ok) == compatible
Broken(compatible, still_ok) == compatible \ still_ok

\* the baseline records of the keys, those without a record left out
RecordsOf(keys, records) ==
    LET have == SelectSeq(keys, LAMBDA k : k \in DOMAIN records)
    IN  [i \in 1..Len(have) |-> records[have[i]]]

\* the third pass returns still_ok; the baseline records of the broken keys are
\* written in key order
EndStillOk ==
    /\ epass = "p3"
    /\ eidx > Len(ecorpus)
    /\ estill_ok' = elcompatible
    /\ elog' = elog \o RecordsOf(sorted(Broken(ecompatible, elcompatible)), ebaseline_records)
    /\ epass' = "done"
    /\ UNCHANGED <<eargs, ecorpus, eidx, eby_db, elcompatible, elrecords, ecompatible,
                   ebaseline_records, elast, ecounted, ecorrect, notEval>>

NextEvaluate ==
    \/ StartRun
    \/ RecordSkipped
    \/ RecordReferenceError
    \/ RecordTranspileError
    \/ RecordExecError
    \/ RecordCompared
    \/ EndBaseline
    \/ DropColumnsUnknownDb
    \/ DropColumns
    \/ EndDropped
    \/ EndStillOk

SpecEvaluate == InitEvaluate /\ [][NextEvaluate]_vars

(***************************************************************************)
(* SpecDrop: the loop over the databases of the column-drop mapping, in    *)
(* main of preprocess_dbs.py and in the --drop-columns step of main of     *)
(* duckdb_pipeline.py.                                                     *)
(***************************************************************************)
SetMax(S) == CHOOSE x \in S : \A y \in S : y <= x

\* sorted(cols_to_drop.keys())
RECURSIVE SortedDbs(_)
SortedDbs(S) ==
    IF S = {} THEN <<>>
    ELSE LET d == CHOOSE x \in S : \A y \in S \ {x} : TextLess(DbText(x), DbText(y))
         IN  <<d>> \o SortedDbs(S \ {d})

\* db_id in cols_to_drop
InMappingAlways(db, cols_to_drop) == TRUE
InMapping(db, cols_to_drop) == db \in cols_to_drop

\* what main returns: exit_code in preprocess_dbs.py, 0 in duckdb_pipeline.py
MainReturn(cli, exit_code) == IF cli = "preprocess" THEN exit_code ELSE 0

InitDrop ==
    /\ dcli \in {"preprocess", "pipeline"}
    /\ donly \in {""} \cup DbIds
    /\ dpickle \in SUBSET DbIds
    /\ dsrcs \in SUBSET DbIds
    /\ dqueue = <<>>
    /\ dexit_code = 0
    /\ drcs = <<>>
    /\ dwritten = {}
    /\ dpc = "start"
    /\ dstatus = 0
    /\ FirstIdle
    /\ MigIdle
    /\ FilterIdle
    /\ ExportIdle
    /\ LastIdle

DropFrame == UNCHANGED <<dcli, donly, dpickle, dsrcs, notDrop>>

\* db_ids = [args.db] if args.db else the keys of the mapping
ListDbIds ==
    /\ dpc = "start"
    /\ dqueue' = IF donly # "" THEN <<donly>> ELSE SortedDbs(dpickle)
    /\ dpc' = "loop"
    /\ UNCHANGED <<dexit_code, drcs, dwritten, dstatus>>
    /\ DropFrame

\* raise SystemExit("DB id not in pickle")
DbNotInMapping ==
    /\ dpc = "loop"
    /\ dqueue # <<>>
    /\ ~InMapping(Head(dqueue), dpickle)
    /\ dpc' = "fatal"
    /\ dstatus' = 1
    /\ UNCHANGED <<dqueue, dexit_code, drcs, dwritten>>
    /\ DropFrame

\* the source database file is missing: preprocess_dbs.py takes the code 2,
\* duckdb_pipeline.py only prints
SourceMissing ==
    /\ dpc = "loop"
    /\ dqueue # <<>>
    /\ InMapping(Head(dqueue), dpickle)
    /\ Head(dqueue) \notin dsrcs
    /\ dexit_code' = IF dcli = "preprocess" THEN Max2(dexit_code, 2) ELSE dexit_code
    /\ drcs' = IF dcli = "preprocess" THEN Put(drcs, Head(dqueue), 2) ELSE drcs
    /\ dqueue' = Tail(dqueue)
    /\ UNCHANGED <<dwritten, dpc, dstatus>>
    /\ DropFrame

\* rc = process_db(...); exit_code = max(exit_code, rc) in preprocess_dbs.py,
\* _ = nullify_columns_in_duckdb(...) in duckdb_pipeline.py
NullifyDatabase ==
    /\ dpc = "loop"
    /\ dqueue # <<>>
    /\ InMapping(Head(dqueue), dpickle)
    /\ Head(dqueue) \in dsrcs
    /\ \E failed \in 0..MaxFailed :
        LET rc == ReturnCode(failed)
        IN  /\ dexit_code' = IF dcli = "preprocess" THEN Max2(dexit_code, rc) ELSE dexit_code
            /\ drcs' = Put(drcs, Head(dqueue), rc)
    /\ dwritten' = dwritten \cup {Head(dqueue)}
    /\ dqueue' = Tail(dqueue)
    /\ UNCHANGED <<dpc, dstatus>>
    /\ DropFrame

\* the loop is over: main returns
ReturnFromMain ==
    /\ dpc = "loop"
    /\ dqueue = <<>>
    /\ dstatus' = MainReturn(dcli, dexit_code)
    /\ dpc' = "done"
    /\ UNCHANGED <<dqueue, dexit_code, drcs, dwritten>>
    /\ DropFrame

NextDrop ==
    \/ ListDbIds
    \/ DbNotInMapping
    \/ SourceMissing
    \/ NullifyDatabase
    \/ ReturnFromMain

SpecDrop == InitDrop /\ [][NextDrop]_vars

(***************************************************************************)
(* SpecMigrate: convert_sqlite_to_duckdb, its fallback                     *)
(* _convert_sqlite_to_duckdb_with_all_varchar, and apply_db_fixes, on one  *)
(* database.  A DuckDB file is [exists, tables, attached]: its table set   *)
(* and whether the attachment __other is still bound in it.                *)
(***************************************************************************)
TableNames == {"t1", "t2"}
LeftoverNames == {"t1", "old"}
MigrateDbIds == {"california_schools", "european_football_2", "other"}

\* duckdb.connect(path): a missing file is created empty
connect(file) == IF file.exists THEN file ELSE [NoTarget EXCEPT !.exists = TRUE]

_safe_unlink(file) == NoTarget

\* if duck_db.exists(): if not force: return
SkipsExistingNever(exists, force) == FALSE
SkipsExisting(exists, force) == exists /\ ~force

\* the except branch is taken: the subprocess exited nonzero, the file cannot be
\* opened, or SHOW TABLES is empty
PrimaryFailedOnStatus(status, file) == status # 0
PrimaryFailed(status, file) == status # 0 \/ ~file.exists \/ file.tables = {}

\* DROP TABLE IF EXISTS for every table SHOW TABLES lists
DropExistingNone(tables) == tables
DropExisting(tables) == {}

\* where the fallback raises: nowhere, at ATTACH, or in the copy loop after it
\* has copied some of the source's tables
Stops(source) ==
    {[at |-> "none", copied |-> {}], [at |-> "attach", copied |-> {}]}
    \cup {[at |-> "copy", copied |-> S] : S \in (SUBSET source) \ {source}}

_convert_sqlite_to_duckdb_with_all_varchar(source, file, stop) ==
    LET opened == connect(file)
        clean == [opened EXCEPT !.tables = DropExisting(opened.tables), !.attached = FALSE]
    IN  IF stop.at = "attach" THEN [file |-> clean, raised |-> TRUE]
        ELSE IF stop.at = "copy" THEN
            [file |-> [clean EXCEPT !.tables = @ \cup stop.copied, !.attached = TRUE],
             raised |-> TRUE]
        ELSE [file |-> [clean EXCEPT !.tables = @ \cup source, !.attached = FALSE],
              raised |-> FALSE]

\* the target files a previous run can have left
Leftovers ==
    {NoTarget} \cup [exists : {TRUE}, tables : SUBSET LeftoverNames, attached : BOOLEAN]

\* what the importer subprocess leaves: nothing, or some of the source's tables
ImportedFiles(source) ==
    {NoTarget} \cup [exists : {TRUE}, tables : SUBSET source, attached : {FALSE}]

InitMigrate ==
    /\ mdb \in MigrateDbIds
    /\ msource \in SUBSET TableNames
    /\ mtarget \in Leftovers
    /\ mforce = FALSE
    /\ mpc = "call"
    /\ mcalls = 0
    /\ mkind = "none"
    /\ mbefore = NoTarget
    /\ mprimary = NoPrimary
    /\ mfallback = NoFallback
    /\ mfix = "none"
    /\ FirstIdle
    /\ DropIdle
    /\ FilterIdle
    /\ ExportIdle
    /\ LastIdle

MigFrame == UNCHANGED <<mdb, msource, notMig>>

\* convert_sqlite_to_duckdb is called: an existing target is kept without force
\* and unlinked with force
BeginConvert ==
    /\ mpc = "call"
    /\ mcalls < MaxCalls
    /\ \E force \in BOOLEAN :
        /\ mforce' = force
        /\ IF SkipsExisting(mtarget.exists, force)
           THEN mpc' = "returned" /\ mtarget' = mtarget
           ELSE mpc' = "primary" /\ mtarget' = _safe_unlink(mtarget)
    /\ mcalls' = mcalls + 1
    /\ mkind' = "convert"
    /\ mbefore' = mtarget
    /\ mprimary' = NoPrimary
    /\ mfallback' = NoFallback
    /\ mfix' = "none"
    /\ MigFrame

\* european_football_2: RuntimeError before the importer is started
PrimarySkipped ==
    /\ mpc = "primary"
    /\ mdb = "european_football_2"
    /\ mpc' = "except"
    /\ UNCHANGED <<mtarget, mforce, mcalls, mkind, mbefore, mprimary, mfallback, mfix>>
    /\ MigFrame

\* the importer subprocess runs and the target's tables are counted
PrimaryImport ==
    /\ mpc = "primary"
    /\ mdb # "european_football_2"
    /\ \E status \in {0, 1}, file \in ImportedFiles(msource) :
        /\ mtarget' = file
        /\ mprimary' = [ran |-> TRUE, status |-> status, file |-> file]
        /\ mpc' = IF PrimaryFailed(status, file) THEN "except" ELSE "returned"
    /\ UNCHANGED <<mforce, mcalls, mkind, mbefore, mfallback, mfix>>
    /\ MigFrame

\* except: the target is unlinked and the fallback runs on it
Fallback ==
    /\ mpc = "except"
    /\ \E stop \in Stops(msource) :
        LET unlinked == _safe_unlink(mtarget)
            res == _convert_sqlite_to_duckdb_with_all_varchar(msource, unlinked, stop)
        IN  /\ mtarget' = res.file
            /\ mfallback' = [ran |-> TRUE, opened |-> unlinked, raised |-> res.raised]
            /\ mpc' = IF res.raised THEN "raised" ELSE "returned"
    /\ UNCHANGED <<mforce, mcalls, mkind, mbefore, mprimary, mfix>>
    /\ MigFrame

\* the fallback alone, on whatever the target holds
FallbackAlone ==
    /\ mpc = "call"
    /\ mcalls < MaxCalls
    /\ \E stop \in Stops(msource) :
        LET res == _convert_sqlite_to_duckdb_with_all_varchar(msource, mtarget, stop)
        IN  /\ mtarget' = res.file
            /\ mfallback' = [ran |-> TRUE, opened |-> mtarget, raised |-> res.raised]
            /\ mpc' = IF res.raised THEN "raised" ELSE "returned"
    /\ mcalls' = mcalls + 1
    /\ mkind' = "fallback"
    /\ mbefore' = mtarget
    /\ mprimary' = NoPrimary
    /\ mfix' = "none"
    /\ UNCHANGED mforce
    /\ MigFrame

\* apply_db_fixes after the conversion: a patch statement can be rejected (the
\* table or column is absent, the cast fails); only california_schools' is caught
ApplyDbFixes ==
    /\ mpc = "returned"
    /\ mkind = "convert"
    /\ \E rejected \in BOOLEAN :
        IF mdb = "california_schools"
        THEN mfix' = (IF rejected THEN "swallowed" ELSE "applied") /\ mpc' = "fixed"
        ELSE IF mdb = "european_football_2"
        THEN /\ mfix' = (IF rejected THEN "raised" ELSE "applied")
             /\ mpc' = (IF rejected THEN "aborted" ELSE "fixed")
        ELSE mfix' = "none" /\ mpc' = "fixed"
    /\ UNCHANGED <<mtarget, mforce, mcalls, mkind, mbefore, mprimary, mfallback>>
    /\ MigFrame

\* the next call, in this run or a later one
NextCall ==
    /\ mpc \in {"returned", "fixed", "raised", "aborted"}
    /\ mcalls < MaxCalls
    /\ mpc' = "call"
    /\ UNCHANGED <<mtarget, mforce, mcalls, mkind, mbefore, mprimary, mfallback, mfix>>
    /\ MigFrame

NextMigrate ==
    \/ BeginConvert
    \/ PrimarySkipped
    \/ PrimaryImport
    \/ Fallback
    \/ FallbackAlone
    \/ ApplyDbFixes
    \/ NextCall

SpecMigrate == InitMigrate /\ [][NextMigrate]_vars

(***************************************************************************)
(* SpecFilter: the selection of the corpus files, _filter_query_csvs in    *)
(* duckdb_pipeline.py and the same loop in main of sqlite_execute.py.  A   *)
(* file name is a sequence of tokens, a CSV row a sequence of cells, a     *)
(* cell a sequence of tokens.                                              *)
(***************************************************************************)
QueriesCsv == <<"A", "Queries.csv">>
HybridCsv == <<"A", "_Hybrid", "Queries.csv">>
LoneHybridCsv == <<"B", "_Hybrid", "Queries.csv">>

\* sorted(glob("*Queries.csv")) of the directory
SortedNames(dir) == SelectSeq(<<QueriesCsv, HybridCsv, LoneHybridCsv>>, LAMBDA n : n \in dir)

\* name.endswith("_HybridQueries.csv")
EndsWithHybrid(name) ==
    Len(name) >= 2 /\ SubSeq(name, Len(name) - 1, Len(name)) = <<"_Hybrid", "Queries.csv">>

RECURSIVE ReplaceHybrid(_)
\* name.replace("_HybridQueries.csv", "Queries.csv")
ReplaceHybrid(name) ==
    IF Len(name) < 2 THEN name
    ELSE IF SubSeq(name, 1, 2) = <<"_Hybrid", "Queries.csv">>
        THEN <<"Queries.csv">> \o ReplaceHybrid(SubSeq(name, 3, Len(name)))
    ELSE <<Head(name)>> \o ReplaceHybrid(Tail(name))

\* gold_rows(path): (row[0].strip(), row[3]) of every row, "" for an absent cell
gold_rows_db_only(rows) ==
    [i \in 1..Len(rows) |-> <<IF Len(rows[i]) > 0 THEN Strip(rows[i][1]) ELSE <<>>, <<>>>>]
gold_rows(rows) ==
    [i \in 1..Len(rows) |->
        <<IF Len(rows[i]) > 0 THEN Strip(rows[i][1]) ELSE <<>>,
          IF Len(rows[i]) > 3 THEN rows[i][4] ELSE <<>>>>]

\* whether the loop skips the file
SkipsHybrid(name, dir, content) ==
    /\ EndsWithHybrid(name)
    /\ ReplaceHybrid(name) \in dir
    /\ gold_rows(content[name]) = gold_rows(content[ReplaceHybrid(name)])

_filter_query_csvs(csv_paths, dir, content) ==
    SelectSeq(csv_paths, LAMBDA p : ~SkipsHybrid(p, dir, content))

\* CSV rows: two rows with the same database and SQL, a row with another SQL, a
\* row of two cells
CsvRowSamples ==
    { <<<<"db1">>, <<"q1">>, <<>>, <<"sql1">>>>,
      <<<<" ", "db1">>, <<"q2">>, <<>>, <<"sql1">>>>,
      <<<<"db1">>, <<"q1">>, <<>>, <<"sql2">>>>,
      <<<<"db1">>, <<"q1">>>> }

InitFilter ==
    /\ ftool \in {"pipeline", "exporter"}
    /\ fdir \in {d \in SUBSET {QueriesCsv, HybridCsv, LoneHybridCsv} : d # {}}
    /\ \E a, h \in SeqsUpTo(CsvRowSamples, MaxCsvRows) :
        fcontent = [n \in fdir |-> IF n = QueriesCsv THEN a
                                   ELSE IF n = HybridCsv THEN h
                                   ELSE <<>>]
    /\ fout = <<>>
    /\ fpc = "start"
    /\ FirstIdle
    /\ DropIdle
    /\ MigIdle
    /\ ExportIdle
    /\ LastIdle

\* duckdb_pipeline.py: csv_paths = _filter_query_csvs(sorted glob)
FilterQueryCsvs ==
    /\ fpc = "start"
    /\ ftool = "pipeline"
    /\ fout' = _filter_query_csvs(SortedNames(fdir), fdir, fcontent)
    /\ fpc' = "done"
    /\ UNCHANGED <<ftool, fdir, fcontent, notFilter>>

\* sqlite_execute.py: the loop that builds filtered
FilterExportCsvs ==
    /\ fpc = "start"
    /\ ftool = "exporter"
    /\ fout' = SelectSeq(SortedNames(fdir), LAMBDA p : ~SkipsHybrid(p, fdir, fcontent))
    /\ fpc' = "done"
    /\ UNCHANGED <<ftool, fdir, fcontent, notFilter>>

NextFilter == FilterQueryCsvs \/ FilterExportCsvs

SpecFilter == InitFilter /\ [][NextFilter]_vars

(***************************************************************************)
(* SpecExport: main of sqlite_execute.py on the selected corpus files.     *)
(* A row is [db, sql, cells]: its database id, its gold SQL ("" when the   *)
(* row has fewer than 4 cells) and its number of cells.                    *)
(***************************************************************************)
ExportRowSamples ==
    { [db |-> "db1", sql |-> "sql1", cells |-> 4],
      [db |-> "db2", sql |-> "sql1", cells |-> 4],
      [db |-> "db1", sql |-> "", cells |-> 2] }

\* what execute_sqlite can return
OutcomeSamples ==
    { [ok |-> TRUE, result |-> "rows1"], [ok |-> TRUE, result |-> "rows2"],
      [ok |-> FALSE, result |-> "error"] }

\* the (db_id, gold_sql) pairs of a file's rows, which the selection compares
ExportPairs(rows) == [i \in 1..Len(rows) |-> <<rows[i].db, rows[i].sql>>]

\* the selected files in sorted order: a file and another file's hybrid, or a
\* file and its own hybrid, which is selected when the pairs of the two differ
ExportNameSamples(files) ==
    {<<QueriesCsv, LoneHybridCsv>>}
    \cup (IF ExportPairs(files[1]) # ExportPairs(files[2])
          THEN {<<QueriesCsv, HybridCsv>>} ELSE {})

ExportNames == xnames

\* the stem of the output file <stem>_gold.jsonl
OutStem(name) == Head(name)

\* cache_key in gold_cache
CacheHitNever(key, cache) == FALSE
CacheHit(key, cache) == key \in DOMAIN cache

InitExport ==
    /\ xargs \in [skip_missing_db : BOOLEAN, allow_errors : BOOLEAN, dry_run : BOOLEAN]
    /\ xfiles \in {fs \in [1..2 -> SeqsUpTo(ExportRowSamples, MaxExportRows)] :
                    Len(fs[1]) + Len(fs[2]) <= MaxExportRows}
    /\ xnames \in ExportNameSamples(xfiles)
    /\ xexists \in {{"db1"}, {"db1", "db2"}}
    /\ xfile = 1
    /\ xrow = 1
    /\ xcache = <<>>
    /\ xout = [st \in {OutStem(ExportNames[1])} |-> <<>>]
    /\ xexec = <<>>
    /\ xlast = "none"
    /\ xpc = "run"
    /\ FirstIdle
    /\ DropIdle
    /\ MigIdle
    /\ FilterIdle
    /\ LastIdle

CurExportRow == xfiles[xfile][xrow]
CurCacheKey == <<CurExportRow.db, CurExportRow.sql>>
CurStem == OutStem(ExportNames[xfile])
InExport == xpc = "run" /\ xfile <= 2 /\ xrow <= Len(xfiles[xfile])
Malformed == CurExportRow.db = "" \/ CurExportRow.sql = ""
DbMissing == CurExportRow.db \notin xexists

\* out.write of the row's record
Written(answer) ==
    [xout EXCEPT ![CurStem] = Append(@, [file |-> xfile, row |-> xrow, db |-> CurExportRow.db,
                                          key |-> CurCacheKey, answer |-> answer])]

ExportFrame == UNCHANGED <<xargs, xfiles, xexists, xnames, notExport>>

\* db_id or gold_sql is empty: raise SystemExit("Malformed row ...")
RowMalformed ==
    /\ InExport
    /\ Malformed
    /\ xpc' = "fatal"
    /\ xlast' = "malformed"
    /\ UNCHANGED <<xfile, xrow, xcache, xout, xexec>>
    /\ ExportFrame

\* the database file is missing: an error record with --skip-missing-db or
\* --dry-run, else SystemExit
RowMissingDb ==
    /\ InExport
    /\ ~Malformed
    /\ DbMissing
    /\ IF xargs.skip_missing_db \/ xargs.dry_run
       THEN xout' = Written("missing") /\ xrow' = xrow + 1 /\ xpc' = xpc
       ELSE xout' = xout /\ xrow' = xrow /\ xpc' = "fatal"
    /\ xlast' = "missing"
    /\ UNCHANGED <<xfile, xcache, xexec>>
    /\ ExportFrame

\* --dry-run: a record with the answer None, nothing is executed
RowDryRun ==
    /\ InExport
    /\ ~Malformed
    /\ ~DbMissing
    /\ xargs.dry_run
    /\ xout' = Written("none")
    /\ xrow' = xrow + 1
    /\ xlast' = "dry"
    /\ UNCHANGED <<xfile, xcache, xexec, xpc>>
    /\ ExportFrame

\* the outcome is written, or the run ends on an error without --allow-errors
Answered(outcome) ==
    IF ~outcome.ok /\ ~xargs.allow_errors
    THEN xout' = xout /\ xrow' = xrow /\ xpc' = "fatal"
    ELSE xout' = Written(outcome.result) /\ xrow' = xrow + 1 /\ xpc' = xpc

\* the key is not in gold_cache: execute_sqlite runs and its outcome is stored
RowExecuted ==
    /\ InExport
    /\ ~Malformed
    /\ ~DbMissing
    /\ ~xargs.dry_run
    /\ ~CacheHit(CurCacheKey, xcache)
    /\ \E outcome \in OutcomeSamples :
        /\ xcache' = Put(xcache, CurCacheKey, outcome)
        /\ Answered(outcome)
    /\ xexec' = Put(xexec, CurCacheKey,
                    IF CurCacheKey \in DOMAIN xexec THEN xexec[CurCacheKey] + 1 ELSE 1)
    /\ xlast' = "executed"
    /\ UNCHANGED xfile
    /\ ExportFrame

\* the key is in gold_cache: the stored outcome is used
RowCached ==
    /\ InExport
    /\ ~Malformed
    /\ ~DbMissing
    /\ ~xargs.dry_run
    /\ CacheHit(CurCacheKey, xcache)
    /\ Answered(xcache[CurCacheKey])
    /\ xlast' = "cached"
    /\ UNCHANGED <<xfile, xcache, xexec>>
    /\ ExportFrame

\* the file's rows are done: the next file's output is opened, or main returns 0
NextExportFile ==
    /\ xpc = "run"
    /\ xfile <= 2
    /\ xrow > Len(xfiles[xfile])
    /\ xfile' = xfile + 1
    /\ xrow' = 1
    /\ xout' = IF xfile < 2 THEN Put(xout, OutStem(ExportNames[xfile + 1]), <<>>) ELSE xout
    /\ xpc' = IF xfile < 2 THEN "run" ELSE "done"
    /\ UNCHANGED <<xcache, xexec, xlast>>
    /\ ExportFrame

NextExport ==
    \/ RowMalformed
    \/ RowMissingDb
    \/ RowDryRun
    \/ RowExecuted
    \/ RowCached
    \/ NextExportFile

SpecExport == InitExport /\ [][NextExport]_vars

(***************************************************************************)
(* Properties of the comparison oracle.                                    *)
(***************************************************************************)
\* how often a row with stable key k occurs in rows
Occurrences(rows, k) == Cardinality({i \in 1..Len(rows) : RowKey(rows[i]) = k})

SameMultiplicities(e, g) ==
    \A k \in {RowKey(e[i]) : i \in 1..Len(e)} \cup {RowKey(g[i]) : i \in 1..Len(g)} :
        Occurrences(e, k) = Occurrences(g, k)

\* C4: rows_equal_unordered gives the same verdict after any reordering of the rows
\* of either argument, and the verdict is true exactly when every row key occurs
\* the same number of times on both sides.
UnorderedIsMultisetEquality ==
    rpc = "compared" => /\ rlast = rfirst
                        /\ rlast = SameMultiplicities(rexp, rgot)

\* rows in a different order on the two sides, reordered, still found equal
UnorderedReorderedWitness ==
    /\ rpc = "compared"
    /\ rpermuted
    /\ Len(rexp) = 2
    /\ rexp[1] # rexp[2]
    /\ rgot = <<rexp[2], rexp[1]>>
    /\ rlast

\* C5: scalar_equal(1, 1.0), scalar_equal("3", 3) and scalar_equal(1e-10, 0) are
\* true, and scalar_equal("abc", 0) is false.
ScalarEqualExamples ==
    spc = "compared" =>
        /\ (sa = PyInt(1) /\ sb = PyFloat(1, 0)) => sres
        /\ (sa = PyStr(<<"3">>) /\ sb = PyInt(3)) => sres
        /\ (sa = PyFloat(0, 1) /\ sb = PyInt(0)) => sres
        /\ (sa = PyStr(<<"a", "b", "c">>) /\ sb = PyInt(0)) => ~sres

\* 1e-10 was compared with 0 and found equal
ScalarToleranceWitness ==
    spc = "compared" /\ sa = PyFloat(0, 1) /\ sb = PyInt(0) /\ sres

\* C6: scalar_equal is reflexive and symmetric on canonical values.
ScalarEqualReflexiveSymmetric ==
    spc = "compared" => /\ (sa = sb => sres)
                        /\ sres = scalar_equal(sb, sa)

\* C7: scalar_equal of a boolean and a number is false, in either order.
BoolNeverEqualsNumber ==
    (/\ spc = "compared"
     /\ \/ (sa.k = "bool" /\ sb.k \in {"int", "float"})
        \/ (sb.k = "bool" /\ sa.k \in {"int", "float"}))
    => ~sres

(***************************************************************************)
(* Properties of the column nullification mutators.                        *)
(***************************************************************************)
DstRows == nfiles[ndst].rows

DistinctIn(rows, c) == \A r1, r2 \in rows : r1 # r2 => ColOf(r1, c) # ColOf(r2, c)

\* C8: for a NOT NULL column that is a primary key or in a UNIQUE index, when
\* setting NULL is rejected the mutator still succeeds by writing per-row distinct
\* values derived from the row identifier, and afterwards no two rows of the table
\* hold the same value in that column; for every initial content, in both engines.
UniqueColumnGetsPerRowDummy ==
    (/\ npc \in {"loop", "done"}
     /\ nlast.c # "none"
     /\ nlast.rejected
     /\ nschema[nlast.c].notnull
     /\ IsUniqueCol(nschema[nlast.c]))
    => (/\ nlast.outcome = "dummy"
        /\ DistinctIn(DstRows, nlast.c))

\* C9: no step of the mutator changes the source database file.
SourceNeverChanges == [][nfiles'[nsrc] = nfiles[nsrc]]_vars

\* a run that applied an update, after which the destination differs from the source
DestinationChangedWitness ==
    /\ npc = "done"
    /\ napplied > 0
    /\ nfiles[ndst].exists
    /\ nfiles[ndst] # nfiles[nsrc]

\* C10: the mutator returns 0 exactly when no column failed and 2 otherwise; an
\* update the engine rejects is counted, never raised, and every remaining
\* reference is still processed.
ReturnCodeReportsFailures ==
    /\ npc = "done" =>
        /\ nrc \in {0, 2}
        /\ nrc = 0 <=> nfailed = 0
        /\ nidx = Len(Pairs) + 1
        /\ napplied + nfailed + nmissing = Len(Pairs)
    /\ npc = "raised" => (nsrc = ndst /\ nidx = 0 /\ nfailed = 0)
    /\ nlast.outcome = "failed" => (npc \in {"loop", "done"} /\ nfailed > 0)

\* a column failed, a later reference was still applied, and the call returned 2
FailedThenAppliedWitness ==
    /\ npc = "done"
    /\ nrc = 2
    /\ nfailed > 0
    /\ nlast.outcome \in {"null", "empty", "dummy"}

(***************************************************************************)
(* Properties of the evaluation harness.                                   *)
(***************************************************************************)
DroppedPassOver == eargs.drop_columns /\ epass \in {"p3", "done"}

\* C1: in a run with --drop-columns the keys that phase 2 counts in a total are
\* exactly the compatible set of phase 1, which is the set of keys phase 1 counted
\* as correct: phase 2 never counts a key outside it, and once phase 2 is over it
\* has counted every key in it.
DegradationEvaluatesCompatibleSet ==
    /\ ecounted["p2"] \subseteq ecompatible
    /\ (eargs.drop_columns /\ epass \in {"drop", "p2", "p3", "done"})
        => ecompatible = ecorrect["p1"]
    /\ DroppedPassOver => ecounted["p2"] = ecompatible

\* phase 2 is over, it counted some key, left out a key that phase 1 counted, and
\* one of the keys it counted was no longer correct
DegradationWitness ==
    /\ DroppedPassOver
    /\ ecounted["p2"] # {}
    /\ ecounted["p2"] # ecounted["p1"]
    /\ ecorrect["p2"] # ecounted["p2"]

\* C2: with --out-broken the compatibility log of a finished run holds exactly the
\* baseline records of the keys that were correct in phase 1 and are not correct
\* after the drop, each once; no key still correct and no key that was not correct
\* in the baseline is written.
BrokenLogIsCompatibleMinusStillCorrect ==
    (epass = "done" /\ eargs.out_broken) =>
        LET broken == ecorrect["p1"] \ ecorrect["p3"]
        IN  /\ Len(elog) = Cardinality(broken)
            /\ \A k \in broken : \E i \in 1..Len(elog) :
                /\ elog[i] = ebaseline_records[k]
                /\ elog[i].db = k[1]
                /\ elog[i].question_id = k[2]
            /\ \A i \in 1..Len(elog) : <<elog[i].db, elog[i].question_id>> \in broken

\* a finished --out-broken run with a broken key written and a still correct key
BrokenLogWitness ==
    /\ epass = "done"
    /\ eargs.out_broken
    /\ elog # <<>>
    /\ ecorrect["p3"] # {}

\* C3: for a record whose expected answer is [[2014]], DuckDB's [[2014.0]] counts
\* as correct and not as a mismatch, and [[2015]] counts as a mismatch and not as
\* correct.
NumericToleranceExample ==
    elast.kind = "compared" =>
        /\ elast.got = <<<<PyFloat(2014, 0)>>>> => (elast.correct = 1 /\ elast.mismatches = 0)
        /\ elast.got = <<<<PyInt(2015)>>>> => (elast.mismatches = 1 /\ elast.correct = 0)

\* the reference names the table frpm (in any case, or by the alias fprm) and one
\* of its columns (in any case)
NamesTable(t) == t \in {<<"frpm">>, <<"FRPM">>, <<"fprm">>}
NamesColumn(c) == c \in {<<"a">>, <<"A">>, <<"Academic", " ", "Year">>,
                         <<"academic", " ", "year">>}

\* C11: a reference whose table or column cannot be resolved, after the
\* case-insensitive lookup and the alias fprm -> frpm, increments missing only: it
\* raises nothing, leaves the database files unchanged, is not counted as failed or
\* applied, and the loop goes on to the later references; a reference that does
\* resolve is never counted as missing.
UnresolvedCountsMissingOnly ==
    /\ [][(InLoop /\ nidx' = nidx + 1) =>
            IF NamesTable(CurPair.table) /\ NamesColumn(CurPair.col)
            THEN nmissing' = nmissing
            ELSE /\ nmissing' = nmissing + 1
                 /\ nfailed' = nfailed
                 /\ napplied' = napplied
                 /\ nfiles' = nfiles
                 /\ npc' = "loop"]_vars
    /\ [](npc = "done" => nidx = Len(Pairs) + 1)

\* a run that met a missing reference, applied a later one, and returned 0
MissingThenAppliedWitness ==
    /\ npc = "done"
    /\ nmissing > 0
    /\ nfailed = 0
    /\ nrc = 0
    /\ nlast.outcome \in {"null", "empty", "dummy"}

(***************************************************************************)
(* Properties of the database loops.                                       *)
(***************************************************************************)
\* C12: the exit status of a finished run is the maximum of the codes of the
\* databases it visited: 0 when no visited database had a failed column, nonzero
\* when one had; in preprocess_dbs.py and in the --drop-columns run of
\* duckdb_pipeline.py.
ExitStatusIsMaxOfDatabaseCodes ==
    dpc = "done" => dstatus = SetMax({0} \cup {drcs[d] : d \in DOMAIN drcs})

\* C13: when --db names a database that the column-drop mapping does not hold, the
\* run never finishes normally and ends with a nonzero status, and the mutator is
\* never called: no destination database is written.
UnknownDbIsFatal ==
    (donly # "" /\ donly \notin dpickle) =>
        /\ dwritten = {}
        /\ dpc \in {"start", "loop", "fatal"}
        /\ dpc = "fatal" => dstatus # 0

\* the fatal end for a database whose source file exists
UnknownDbWitness ==
    /\ dpc = "fatal"
    /\ donly # ""
    /\ donly \notin dpickle
    /\ donly \in dsrcs

(***************************************************************************)
(* Properties of the migration.                                            *)
(***************************************************************************)
\* C14: convert_sqlite_to_duckdb without force on an existing target is a no-op:
\* the importer and the fallback do not run and the target is neither unlinked nor
\* rewritten, so a second call without force leaves the table set of the first.
NoForceKeepsExistingTarget ==
    (mkind = "convert" /\ mbefore.exists /\ ~mforce) =>
        /\ mtarget = mbefore
        /\ ~mprimary.ran
        /\ ~mfallback.ran
        /\ mpc \notin {"primary", "except", "raised"}

\* a second call, without force, on a target that holds tables
NoForceSecondCallWitness ==
    /\ mkind = "convert"
    /\ mpc = "returned"
    /\ mcalls > 1
    /\ ~mforce
    /\ mbefore.exists
    /\ mbefore.tables # {}

\* C15: in a call that gets past the existence test, the fallback runs exactly
\* when the primary path failed (european_football_2, a nonzero exit, a target that
\* cannot be opened, or zero tables), it opens the target only after the partial
\* file was deleted, it never runs when the importer exited 0 and left a table, and
\* the call raises only when the fallback raised.
FallbackIffPrimaryFailed ==
    (/\ mkind = "convert"
     /\ mpc \in {"returned", "raised", "fixed", "aborted"}
     /\ ~(mbefore.exists /\ ~mforce)) =>
        LET failed == \/ mdb = "european_football_2"
                      \/ mprimary.status # 0
                      \/ ~mprimary.file.exists
                      \/ mprimary.file.tables = {}
        IN  /\ mfallback.ran <=> failed
            /\ mfallback.ran => ~mfallback.opened.exists
            /\ (mprimary.ran /\ mprimary.status = 0 /\ mprimary.file.tables # {})
                => ~mfallback.ran
            /\ mpc = "raised" => (mfallback.ran /\ mfallback.raised)

\* the importer exited 0 but left a file without tables, and the fallback then
\* copied the source's tables
ZeroTablesFallbackWitness ==
    /\ mkind = "convert"
    /\ mpc = "returned"
    /\ mprimary.ran
    /\ mprimary.status = 0
    /\ mprimary.file.exists
    /\ mfallback.ran
    /\ mtarget.tables # {}

\* C16: a fallback that completes, from a target with any leftover tables and a
\* stale attachment, leaves the target with exactly the source's tables and no
\* attachment; a second run gives the same table set.
FallbackCleansLeftovers ==
    (mfallback.ran /\ ~mfallback.raised) =>
        /\ mtarget.exists
        /\ mtarget.tables = msource
        /\ ~mtarget.attached

\* the fallback completed on a target that held a table the source has not and a
\* stale attachment
LeftoverCleanedWitness ==
    /\ mkind = "fallback"
    /\ mfallback.ran
    /\ ~mfallback.raised
    /\ mfallback.opened.attached
    /\ mfallback.opened.tables \ msource # {}
    /\ msource # {}

\* C17: a failing patch is swallowed for every database id: apply_db_fixes never
\* raises and the pipeline goes on.
PatchFailuresSwallowed == mfix # "raised" /\ mpc # "aborted"

(***************************************************************************)
(* Properties of the corpus file selection.                                *)
(***************************************************************************)
\* the two files hold the same sequence of (database id, gold SQL) pairs
SamePairs(x, y) ==
    /\ Len(x) = Len(y)
    /\ \A i \in 1..Len(x) :
        /\ (IF Len(x[i]) > 0 THEN Strip(x[i][1]) ELSE <<>>)
            = (IF Len(y[i]) > 0 THEN Strip(y[i][1]) ELSE <<>>)
        /\ (IF Len(x[i]) > 3 THEN x[i][4] ELSE <<>>)
            = (IF Len(y[i]) > 3 THEN y[i][4] ELSE <<>>)

Kept(name) == \E i \in 1..Len(fout) : fout[i] = name

\* C18: a hybrid file is left out exactly when its non-hybrid counterpart is in the
\* directory and the two hold the same sequence of (database id, gold SQL) pairs;
\* a hybrid file with a differing row or without counterpart is kept, every
\* non-hybrid file is kept, and no file is kept twice.
HybridExcludedIffSamePairs ==
    fpc = "done" =>
        /\ Len(fout) = Cardinality({n \in fdir : Kept(n)})
        /\ \A i \in 1..Len(fout) : fout[i] \in fdir
        /\ QueriesCsv \in fdir => Kept(QueriesCsv)
        /\ LoneHybridCsv \in fdir => Kept(LoneHybridCsv)
        /\ HybridCsv \in fdir =>
            (Kept(HybridCsv) <=>
                ~(QueriesCsv \in fdir /\ SamePairs(fcontent[HybridCsv], fcontent[QueriesCsv])))

\* the hybrid file is left out although its rows differ from the counterpart's in
\* another cell, and the hybrid file without counterpart is kept
HybridExcludedWitness ==
    /\ fpc = "done"
    /\ HybridCsv \in fdir
    /\ ~Kept(HybridCsv)
    /\ fcontent[HybridCsv] # fcontent[QueriesCsv]
    /\ LoneHybridCsv \in fdir
    /\ Kept(LoneHybridCsv)

(***************************************************************************)
(* Properties of the gold answer export.                                   *)
(***************************************************************************)
\* C19: a corpus row with fewer than 4 cells is skipped: it does not end the run,
\* and the rows after it are still processed.
ShortRowIsSkipped == xlast = "malformed" => xpc = "run"

ExportRecords == UNION {{xout[st][i] : i \in 1..Len(xout[st])} : st \in DOMAIN xout}

\* C20: within one run each (database file, gold SQL) pair is executed at most
\* once; it is in the cache exactly when it was executed, and every record written
\* for it, in any file, carries the stored outcome of that one execution.
EachPairExecutedOnce ==
    /\ \A k \in DOMAIN xexec : xexec[k] = 1
    /\ DOMAIN xcache = DOMAIN xexec
    /\ \A r \in ExportRecords :
        r.answer \notin {"missing", "none"} =>
            (r.key \in DOMAIN xcache /\ r.answer = xcache[r.key].result)

\* a finished run that wrote the same pair in both files after one execution
PairReusedAcrossFilesWitness ==
    /\ xpc = "done"
    /\ \E r1, r2 \in ExportRecords :
        /\ r1.file # r2.file
        /\ r1.key = r2.key
        /\ r1.answer \notin {"missing", "none"}
        /\ xexec[r1.key] = 1

(***************************************************************************)
(* SpecRewrite: rewrite_for_duckdb on a transpiled query.  The SQL text is *)
(* a sequence of tokens: words, punctuation, one token per blank.          *)
(***************************************************************************)
Backslash == "\\"

SqlWords == {"SELECT", "select", "t1", "T1", "teamInfo", "player_name", "player_names",
             "team_long_name", "CURRENT_TIMESTAMP", "current_timestamp", "birthday",
             "t", "DATETIME", "STRFTIME", "a", "b", "FROM", "x", "CAST", "AS",
             "TIMESTAMP", "INTEGER", "ANY_VALUE", "1", "2"}

\* str.upper() of one token, as re.IGNORECASE compares
UpperTok(tok) == CASE tok = "select" -> "SELECT"
                   [] tok = "t1" -> "T1"
                   [] tok = "teamInfo" -> "TEAMINFO"
                   [] tok = "player_name" -> "PLAYER_NAME"
                   [] tok = "team_long_name" -> "TEAM_LONG_NAME"
                   [] tok = "current_timestamp" -> "CURRENT_TIMESTAMP"
                   [] tok = "birthday" -> "BIRTHDAY"
                   [] OTHER -> tok

At(sql, i) == IF i >= 1 /\ i <= Len(sql) THEN sql[i] ELSE "END"

\* \b between position i - 1 and i, next to a word at one side
WordBoundary(sql, i) == (At(sql, i - 1) \in SqlWords) # (At(sql, i) \in SqlWords)

RECURSIVE SkipBlanks(_, _)
\* the position after \s* from position i
SkipBlanks(sql, i) == IF At(sql, i) = " " THEN SkipBlanks(sql, i + 1) ELSE i

Has(sql, tok) == \E i \in 1..Len(sql) : sql[i] = tok

RECURSIVE ReplaceDatetime(_)
\* sql.replace("DATETIME()", "CURRENT_TIMESTAMP")
ReplaceDatetime(sql) ==
    IF sql = <<>> THEN <<>>
    ELSE IF Len(sql) >= 3 /\ SubSeq(sql, 1, 3) = <<"DATETIME", "(", ")">>
        THEN <<"CURRENT_TIMESTAMP">> \o ReplaceDatetime(SubSeq(sql, 4, Len(sql)))
    ELSE <<sql[1]>> \o ReplaceDatetime(Tail(sql))

NoMatch == [len |-> 0, groups |-> <<>>]

\* STRFTIME\(([^)]*?),\s*'%Y'\) at position i
MatchStrftime(sql, i) ==
    LET ends == {j \in (i + 2)..Len(sql) :
                    /\ \A k \in (i + 2)..(j - 1) : sql[k] # ")"
                    /\ sql[j] = ","
                    /\ At(sql, SkipBlanks(sql, j + 1)) = "'%Y'"
                    /\ At(sql, SkipBlanks(sql, j + 1) + 1) = ")"}
        j == Min(ends)
    IN  IF At(sql, i) = "STRFTIME" /\ At(sql, i + 1) = "(" /\ ends # {}
        THEN [len |-> SkipBlanks(sql, j + 1) + 2 - i,
              groups |-> <<SubSeq(sql, i + 2, j - 1)>>]
        ELSE NoMatch

\* (CURRENT_TIMESTAMP)\s*-\s*([A-Za-z_][A-Za-z0-9_]*\.)?birthday\b at position i
MatchBirthday(sql, i) ==
    LET minus == SkipBlanks(sql, i + 1)
        k == SkipBlanks(sql, minus + 1)
        qualified == /\ At(sql, k) \in SqlWords \ {"1", "2"}
                     /\ At(sql, k + 1) = "."
                     /\ UpperTok(At(sql, k + 2)) = "BIRTHDAY"
                     /\ WordBoundary(sql, k + 3)
        bare == UpperTok(At(sql, k)) = "BIRTHDAY" /\ WordBoundary(sql, k + 1)
    IN  IF UpperTok(At(sql, i)) = "CURRENT_TIMESTAMP" /\ At(sql, minus) = "-"
        THEN IF qualified
                THEN [len |-> k + 3 - i, groups |-> <<<<sql[i]>>, <<sql[k], ".">>>>]
             ELSE IF bare
                THEN [len |-> k + 1 - i, groups |-> <<<<sql[i]>>, <<>>>>]
             ELSE NoMatch
        ELSE NoMatch

\* \bSELECT\s+(<qualifier>\.)<column>\b at position i
MatchSelect(sql, i, qualifier, column) ==
    LET k == SkipBlanks(sql, i + 1)
    IN  IF /\ WordBoundary(sql, i)
           /\ UpperTok(At(sql, i)) = "SELECT"
           /\ k > i + 1
           /\ UpperTok(At(sql, k)) = qualifier
           /\ At(sql, k + 1) = "."
           /\ UpperTok(At(sql, k + 2)) = column
           /\ WordBoundary(sql, k + 3)
        THEN [len |-> k + 3 - i, groups |-> <<<<sql[k], ".">>>>]
        ELSE NoMatch

\* the four patterns of rewrite_for_duckdb
MatchAt(pat, sql, i) ==
    CASE pat = "strftime" -> MatchStrftime(sql, i)
      [] pat = "birthday" -> MatchBirthday(sql, i)
      [] pat = "player_name" -> MatchSelect(sql, i, "T1", "PLAYER_NAME")
      [] pat = "team_long_name" -> MatchSelect(sql, i, "TEAMINFO", "TEAM_LONG_NAME")

\* the replacement templates, character by character where a backslash stands:
\* r"\1" is a backslash and a digit, r"\\1" is two backslashes and a digit
Template(pat) ==
    CASE pat = "strftime" ->
            <<"CAST", "(", "STRFTIME", "(", Backslash, "1", ",", " ", "'%Y'", ")", " ",
              "AS", " ", "INTEGER", ")">>
      [] pat = "birthday" ->
            <<Backslash, Backslash, "1", " ", "-", " ", "CAST", "(", Backslash, Backslash,
              "2", "birthday", " ", "AS", " ", "TIMESTAMP", ")">>
      [] pat = "player_name" ->
            <<"SELECT", " ", "ANY_VALUE", "(", Backslash, Backslash, "1", "player_name",
              ")", " ", "AS", " ", "player_name">>
      [] pat = "team_long_name" ->
            <<"SELECT", " ", "ANY_VALUE", "(", Backslash, Backslash, "1", "team_long_name",
              ")", " ", "AS", " ", "team_long_name">>

GroupNumber(tok) == IF tok = "1" THEN 1 ELSE 2

RECURSIVE Expand(_, _)
\* the expansion of a replacement template by re: an escaped backslash is a
\* backslash, a backslash and a digit is the group of that number, an unmatched
\* group is empty
Expand(template, groups) ==
    IF template = <<>> THEN <<>>
    ELSE IF template[1] = Backslash /\ Len(template) >= 2 /\ template[2] = Backslash
        THEN <<Backslash>> \o Expand(SubSeq(template, 3, Len(template)), groups)
    ELSE IF template[1] = Backslash /\ Len(template) >= 2 /\ template[2] \in {"1", "2"}
        THEN groups[GroupNumber(template[2])]
             \o Expand(SubSeq(template, 3, Len(template)), groups)
    ELSE <<template[1]>> \o Expand(Tail(template), groups)

RECURSIVE SubFrom(_, _, _)
\* re.sub from position i: the matches left to right, not overlapping
SubFrom(pat, sql, i) ==
    IF i > Len(sql) THEN <<>>
    ELSE LET m == MatchAt(pat, sql, i)
         IN  IF m.len > 0
             THEN Expand(Template(pat), m.groups) \o SubFrom(pat, sql, i + m.len)
             ELSE <<sql[i]>> \o SubFrom(pat, sql, i + 1)

sub(pat, sql) == SubFrom(pat, sql, 1)

rewrite_for_duckdb(sql) ==
    LET s1 == ReplaceDatetime(sql)
        s2 == IF Has(s1, "STRFTIME") /\ Has(s1, "'%Y'") /\ Has(s1, "-")
              THEN sub("strftime", s1) ELSE s1
        s3 == sub("birthday", s2)
        s4 == sub("player_name", s3)
    IN  sub("team_long_name", s4)

\* pieces of transpiled queries
FragmentSamples ==
    { <<"CURRENT_TIMESTAMP", " ", "-", " ", "t", ".", "birthday">>,
      <<"current_timestamp", "-", "birthday">>,
      <<"DATETIME", "(", ")", " ", "-", " ", "t1", ".", "birthday">>,
      <<"SELECT", " ", "t1", ".", "player_name">>,
      <<"select", " ", "T1", ".", "player_name", " ", "FROM", " ", "x">>,
      <<"SELECT", " ", "teamInfo", ".", "team_long_name">>,
      <<"SELECT", " ", "t1", ".", "player_names">>,
      <<"SELECT", " ", "a", ".", "b">>,
      <<"STRFTIME", "(", "a", ",", " ", "'%Y'", ")", " ", "-", " ",
        "STRFTIME", "(", "b", ",", "'%Y'", ")">>,
      <<"STRFTIME", "(", "a", ",", " ", "'%Y'", ")">>,
      <<"FROM", " ", "x">> }

RECURSIVE JoinFragments(_)
JoinFragments(fs) ==
    IF fs = <<>> THEN <<>>
    ELSE IF Len(fs) = 1 THEN fs[1]
    ELSE fs[1] \o <<" ">> \o JoinFragments(Tail(fs))

InitRewrite ==
    /\ wsql \in {JoinFragments(fs) : fs \in SeqsUpTo(FragmentSamples, MaxFragments)}
    /\ wrewrite \in BOOLEAN
    /\ wout = <<>>
    /\ wpc = "transpiled"
    /\ FirstIdle
    /\ MoreIdle
    /\ ConnIdle
    /\ VerdictIdle
    /\ IdsIdle

\* if args.rewrite: duck_sql = rewrite_for_duckdb(duck_sql)
Rewrite ==
    /\ wpc = "transpiled"
    /\ wrewrite
    /\ wout' = rewrite_for_duckdb(wsql)
    /\ wpc' = "rewritten"
    /\ UNCHANGED <<wsql, wrewrite, notRewrite>>

\* without --rewrite the transpiled text is executed as it is
NoRewrite ==
    /\ wpc = "transpiled"
    /\ ~wrewrite
    /\ wout' = wsql
    /\ wpc' = "rewritten"
    /\ UNCHANGED <<wsql, wrewrite, notRewrite>>

NextRewrite == Rewrite \/ NoRewrite

SpecRewrite == InitRewrite /\ [][NextRewrite]_vars

\* C21: what a rewrite matched is put back: CURRENT_TIMESTAMP - t.birthday becomes
\* CURRENT_TIMESTAMP - CAST(t.birthday AS TIMESTAMP), SELECT t1.player_name becomes
\* SELECT ANY_VALUE(t1.player_name) AS player_name, SELECT teamInfo.team_long_name
\* becomes SELECT ANY_VALUE(teamInfo.team_long_name) AS team_long_name, and the
\* rewritten text never holds a backslash where a matched group belongs.
RewriteReinsertsMatch ==
    (wpc = "rewritten" /\ wrewrite) =>
        /\ ~Has(wout, Backslash)
        /\ wsql = <<"CURRENT_TIMESTAMP", " ", "-", " ", "t", ".", "birthday">> =>
             wout = <<"CURRENT_TIMESTAMP", " ", "-", " ", "CAST", "(", "t", ".", "birthday",
                      " ", "AS", " ", "TIMESTAMP", ")">>
        /\ wsql = <<"SELECT", " ", "t1", ".", "player_name">> =>
             wout = <<"SELECT", " ", "ANY_VALUE", "(", "t1", ".", "player_name", ")", " ",
                      "AS", " ", "player_name">>
        /\ wsql = <<"SELECT", " ", "teamInfo", ".", "team_long_name">> =>
             wout = <<"SELECT", " ", "ANY_VALUE", "(", "teamInfo", ".", "team_long_name",
                      ")", " ", "AS", " ", "team_long_name">>

(***************************************************************************)
(* SpecConnections: the engine connections of one evaluation pass, in main *)
(* of duckdb_validate.py (connections cached in base_conns and drop_conns, *)
(* closed in the finally clause) and in _evaluate of duckdb_pipeline.py    *)
(* (one connection per record, closed in the record's finally clause; the  *)
(* counters of that pass are the subject of SpecEvaluate).                 *)
(***************************************************************************)
ConnDirs == {"duckdb", "duckdb_dropped"}
DbRoot == "db_root"

\* os.path.join(dir, f"{db_id}.duckdb"), db_root / db_id / f"{db_id}.sqlite"
PathOf(dir, db) == <<dir, db>>
ConnPaths == (ConnDirs \cup {DbRoot}) \X DbIds

\* the lines of out.jsonl, the rows of a corpus file
LineSamples == [db : DbIds, line : {"record", "blank", "malformed"}]

ConnArgSamples ==
    [tool : {"validate"}, compare_to : {"gold"}, base_dir : ConnDirs, drop_dir : ConnDirs]
    \cup [tool : {"pipeline"}, compare_to : {"gold", "sqlite"}, base_dir : ConnDirs,
          drop_dir : {"duckdb_dropped"}]

ValidateStats == [total |-> 0, base_ok |-> 0, drop_ok |-> 0, base_err |-> 0, drop_err |-> 0]

InitConnections ==
    /\ vargs \in ConnArgSamples
    /\ vlines \in SeqsUpTo(LineSamples, MaxLines)
    /\ vidx = 1
    /\ vstep = "read"
    /\ vbase_conns = {}
    /\ vdrop_conns = {}
    /\ vopen = [p \in ConnPaths |-> 0]
    /\ vever = {}
    /\ vstats = ValidateStats
    /\ vpc = "run"
    /\ FirstIdle
    /\ MoreIdle
    /\ RewriteIdle
    /\ VerdictIdle
    /\ IdsIdle

CurLine == vlines[vidx]
InRun(tool, step) ==
    vpc = "run" /\ vargs.tool = tool /\ vstep = step /\ vidx <= Len(vlines)

\* duckdb.connect / sqlite3.connect returned a connection to the path
Opened(open, path) == [open EXCEPT ![path] = @ + 1]
\* conn.close()
Closed(open, path) == [open EXCEPT ![path] = @ - 1]

\* the finally clause of main: every cached connection is closed
CloseAllNone(open, base_conns, drop_conns) == open
CloseAll(open, base_conns, drop_conns) ==
    [p \in ConnPaths |-> open[p] - (IF p \in base_conns THEN 1 ELSE 0)
                                 - (IF p \in drop_conns THEN 1 ELSE 0)]

ConnFrame == UNCHANGED <<vargs, vlines, notConn>>

\* an exception leaves the loop of main: the finally clause runs
ValidateRaises ==
    /\ vopen' = CloseAll(vopen, vbase_conns, vdrop_conns)
    /\ vpc' = "raised"
    /\ UNCHANGED <<vidx, vbase_conns, vdrop_conns, vever>>

\* a blank line of out.jsonl
ValidateBlank ==
    /\ InRun("validate", "read")
    /\ CurLine.line = "blank"
    /\ vidx' = vidx + 1
    /\ UNCHANGED <<vstep, vbase_conns, vdrop_conns, vopen, vever, vstats, vpc>>
    /\ ConnFrame

\* json.loads or rec["db"] raises
ValidateMalformed ==
    /\ InRun("validate", "read")
    /\ CurLine.line = "malformed"
    /\ ValidateRaises
    /\ UNCHANGED <<vstep, vstats>>
    /\ ConnFrame

ValidateRecord ==
    /\ InRun("validate", "read")
    /\ CurLine.line = "record"
    /\ vstats' = [vstats EXCEPT !.total = @ + 1]
    /\ vstep' = "baseline"
    /\ UNCHANGED <<vidx, vbase_conns, vdrop_conns, vopen, vever, vpc>>
    /\ ConnFrame

\* get_conn(cache, path) and the query on it: the connection is opened when the
\* cache does not hold the path; the outcome is the connect failing, the query
\* failing, rows that differ, rows that match, or an exception that "except
\* Exception" does not catch
Attempt(cache, path, outcome) ==
    LET hit == path \in cache
        connects == ~hit /\ outcome # "no file"
    IN  [cache |-> IF connects THEN cache \cup {path} ELSE cache,
         open |-> IF connects THEN Opened(vopen, path) ELSE vopen,
         ever |-> IF connects THEN vever \cup {path} ELSE vever,
         ok |-> outcome = "match",
         err |-> outcome \in {"no file", "error"}]

AttemptOutcomes(cache, path) ==
    IF path \in cache THEN {"error", "differ", "match", "interrupt"}
    ELSE {"no file", "error", "differ", "match", "interrupt"}

ValidateBaseline ==
    /\ InRun("validate", "baseline")
    /\ LET path == PathOf(vargs.base_dir, CurLine.db)
       IN  \E outcome \in AttemptOutcomes(vbase_conns, path) :
            LET a == Attempt(vbase_conns, path, outcome)
            IN  /\ vever' = a.ever
                /\ vbase_conns' = a.cache
                /\ vstats' = [vstats EXCEPT !.base_ok = IF a.ok THEN @ + 1 ELSE @,
                                            !.base_err = IF a.err THEN @ + 1 ELSE @]
                /\ IF outcome = "interrupt"
                   THEN /\ vopen' = CloseAll(a.open, a.cache, vdrop_conns)
                        /\ vpc' = "raised"
                        /\ vstep' = vstep
                   ELSE /\ vopen' = a.open
                        /\ vpc' = vpc
                        /\ vstep' = "dropped"
    /\ UNCHANGED <<vidx, vdrop_conns>>
    /\ ConnFrame

ValidateDropped ==
    /\ InRun("validate", "dropped")
    /\ LET path == PathOf(vargs.drop_dir, CurLine.db)
       IN  \E outcome \in AttemptOutcomes(vdrop_conns, path) :
            LET a == Attempt(vdrop_conns, path, outcome)
            IN  /\ vever' = a.ever
                /\ vdrop_conns' = a.cache
                /\ vstats' = [vstats EXCEPT !.drop_ok = IF a.ok THEN @ + 1 ELSE @,
                                            !.drop_err = IF a.err THEN @ + 1 ELSE @]
                /\ IF outcome = "interrupt"
                   THEN /\ vopen' = CloseAll(a.open, vbase_conns, a.cache)
                        /\ vpc' = "raised"
                        /\ UNCHANGED <<vstep, vidx>>
                   ELSE /\ vopen' = a.open
                        /\ vpc' = vpc
                        /\ vstep' = "read"
                        /\ vidx' = vidx + 1
    /\ UNCHANGED vbase_conns
    /\ ConnFrame

\* the file is read to its end: the finally clause runs and main returns
ValidateReturns ==
    /\ vpc = "run"
    /\ vargs.tool = "validate"
    /\ vidx > Len(vlines)
    /\ vopen' = CloseAll(vopen, vbase_conns, vdrop_conns)
    /\ vpc' = "returned"
    /\ UNCHANGED <<vidx, vstep, vbase_conns, vdrop_conns, vever, vstats>>
    /\ ConnFrame

PipelineFrame == UNCHANGED <<vbase_conns, vdrop_conns, vstats>>

\* a row that _evaluate skips, or that ends in an error before any connection
PipelineSkip ==
    /\ InRun("pipeline", "read")
    /\ CurLine.line = "blank"
    /\ vidx' = vidx + 1
    /\ UNCHANGED <<vstep, vopen, vever, vpc>>
    /\ PipelineFrame
    /\ ConnFrame

\* csv.reader raises on the row
PipelineMalformed ==
    /\ InRun("pipeline", "read")
    /\ CurLine.line = "malformed"
    /\ vpc' = "raised"
    /\ UNCHANGED <<vidx, vstep, vopen, vever>>
    /\ PipelineFrame
    /\ ConnFrame

PipelineRow ==
    /\ InRun("pipeline", "read")
    /\ CurLine.line = "record"
    /\ vstep' = IF vargs.compare_to = "sqlite" THEN "reference" ELSE "target"
    /\ UNCHANGED <<vidx, vopen, vever, vpc>>
    /\ PipelineFrame
    /\ ConnFrame

\* sqlite3.connect: a failure is an exec error of the record
PipelineOpenReference ==
    /\ InRun("pipeline", "reference")
    /\ \E connected \in BOOLEAN :
        IF connected
        THEN /\ vopen' = Opened(vopen, PathOf(DbRoot, CurLine.db))
             /\ vever' = vever \cup {PathOf(DbRoot, CurLine.db)}
             /\ vstep' = "reference query"
             /\ vidx' = vidx
        ELSE /\ vstep' = "read"
             /\ vidx' = vidx + 1
             /\ UNCHANGED <<vopen, vever>>
    /\ vpc' = vpc
    /\ PipelineFrame
    /\ ConnFrame

\* sconn.execute(gold_sql).fetchall() and the finally clause
PipelineReferenceQuery ==
    /\ InRun("pipeline", "reference query")
    /\ vopen' = Closed(vopen, PathOf(DbRoot, CurLine.db))
    /\ \E outcome \in {"rows", "error", "interrupt"} :
        /\ vstep' = IF outcome = "rows" THEN "target" ELSE "read"
        /\ vidx' = IF outcome = "error" THEN vidx + 1 ELSE vidx
        /\ vpc' = IF outcome = "interrupt" THEN "raised" ELSE vpc
    /\ vever' = vever
    /\ PipelineFrame
    /\ ConnFrame

\* the DuckDB file is missing (an exec error), or duckdb.connect, which raises
\* out of the pass when it fails
PipelineOpenTarget ==
    /\ InRun("pipeline", "target")
    /\ \E outcome \in {"no file", "connected", "raises"} :
        /\ vopen' = IF outcome = "connected"
                    THEN Opened(vopen, PathOf(vargs.base_dir, CurLine.db)) ELSE vopen
        /\ vever' = IF outcome = "connected"
                    THEN vever \cup {PathOf(vargs.base_dir, CurLine.db)} ELSE vever
        /\ vstep' = IF outcome = "connected" THEN "target query" ELSE "read"
        /\ vidx' = IF outcome = "no file" THEN vidx + 1 ELSE vidx
        /\ vpc' = IF outcome = "raises" THEN "raised" ELSE vpc
    /\ PipelineFrame
    /\ ConnFrame

\* conn.execute(duck_sql).fetchall() and the finally clause
PipelineTargetQuery ==
    /\ InRun("pipeline", "target query")
    /\ vopen' = Closed(vopen, PathOf(vargs.base_dir, CurLine.db))
    /\ \E outcome \in {"rows", "error", "interrupt"} :
        /\ vidx' = IF outcome = "interrupt" THEN vidx ELSE vidx + 1
        /\ vpc' = IF outcome = "interrupt" THEN "raised" ELSE vpc
    /\ vstep' = "read"
    /\ vever' = vever
    /\ PipelineFrame
    /\ ConnFrame

\* _evaluate returns
PipelineReturns ==
    /\ vpc = "run"
    /\ vargs.tool = "pipeline"
    /\ vidx > Len(vlines)
    /\ vpc' = "returned"
    /\ UNCHANGED <<vidx, vstep, vopen, vever>>
    /\ PipelineFrame
    /\ ConnFrame

NextConnections ==
    \/ ValidateBlank
    \/ ValidateMalformed
    \/ ValidateRecord
    \/ ValidateBaseline
    \/ ValidateDropped
    \/ ValidateReturns
    \/ PipelineSkip
    \/ PipelineMalformed
    \/ PipelineRow
    \/ PipelineOpenReference
    \/ PipelineReferenceQuery
    \/ PipelineOpenTarget
    \/ PipelineTargetQuery
    \/ PipelineReturns

SpecConnections == InitConnections /\ [][NextConnections]_vars

\* C22: when a pass has ended, by returning or by an exception, every connection
\* opened during the pass is closed.
PassEndClosesConnections ==
    vpc \in {"returned", "raised"} => \A p \in ConnPaths : vopen[p] = 0

\* a pass of the validator that ended by an exception after it had connected to
\* a baseline and a dropped-column database
RaisedAfterConnectWitness ==
    /\ vpc = "raised"
    /\ vargs.tool = "validate"
    /\ \E db \in DbIds : PathOf(vargs.base_dir, db) \in vever
    /\ \E db \in DbIds : PathOf(vargs.drop_dir, db) \in vever
    /\ vidx = 2

\* C23: at every point of a pass no database file path has more than one open
\* connection, whatever the baseline and dropped-column directories are.
AtMostOneConnectionPerPath == \A p \in ConnPaths : vopen[p] <= 1

\* C24: a record whose gold SQL transpile_sql rejects adds one to its database's
\* transpile_errors and exec_errors, leaves correct and mismatches as they were,
\* is never executed on DuckDB, and the pass goes on to the next record.  (With
\* --compare-to sqlite the reference query runs first; when that fails the
\* record ends there, with one exec error and no transpilation.)
TranspileFailureCountedAndSkipped ==
    [][(InPass /\ ~Skipped /\ CurRecord.sql = "bad" /\ eidx' # eidx) =>
        LET before == eby_db[CurRecord.db]
            after == eby_db'[CurRecord.db]
        IN  /\ after.correct = before.correct
            /\ after.mismatches = before.mismatches
            /\ after.exec_errors = before.exec_errors + 1
            /\ after.total = before.total + 1
            /\ elast'.kind # "compared"
            /\ eidx' = eidx + 1
            /\ epass' = epass
            /\ \A d \in DbIds \ {CurRecord.db} : eby_db'[d] = eby_db[d]
            /\ IF elast'.kind = "transpile error"
               THEN after.transpile_errors = before.transpile_errors + 1
               ELSE /\ eargs.compare_to = "sqlite"
                    /\ after.transpile_errors = before.transpile_errors]_vars

\* a transpile failure on the first record, and the second record compared
TranspileFailureThenNextWitness ==
    /\ epass = "p1"
    /\ eidx = 3
    /\ ecorpus[1].sql = "bad"
    /\ ecorpus[1].db = "db1"
    /\ ecorpus[2].db = "db1"
    /\ elast.kind = "compared"
    /\ eby_db["db1"].transpile_errors = 1
    /\ eby_db["db1"].exec_errors = 1
    /\ eby_db["db1"].total = 2

\* C27: after every record of a pass, for every database, total is the sum of
\* correct, mismatches and exec_errors, and transpile_errors is at most
\* exec_errors, under --compare-to gold and under --compare-to sqlite.
CountersAddUp ==
    \A d \in DbIds :
        /\ eby_db[d].total = eby_db[d].correct + eby_db[d].mismatches + eby_db[d].exec_errors
        /\ eby_db[d].transpile_errors <= eby_db[d].exec_errors

\* a live-reference pass that counted a transpile failure and a correct record
CountersWitness ==
    /\ eargs.compare_to = "sqlite"
    /\ eby_db["db1"].total = 2
    /\ eby_db["db1"].transpile_errors = 1
    /\ eby_db["db1"].correct = 1

\* C25: when NULL was rejected and one value replaces the column's cells, that
\* value follows the declared type: 0 for a numeric or boolean type, an epoch
\* date or date-time for a date or time type, the empty text otherwise, in the
\* SQLite mutator and in the DuckDB mutator.
EmptyValueFollowsTypeCategory ==
    nlast.outcome = "empty" =>
        LET type == nschema[nlast.c].type
            value == IF IsNumericType(type) THEN Cell("int", 0)
                     ELSE IF Contains(type, TDate) THEN Cell("date", 0)
                     ELSE IF Contains(type, <<"T", "I", "M", "E">>) THEN Cell("datetime", 0)
                     ELSE Cell("text", 0)
        IN  \A r \in DstRows : ColOf(r, nlast.c) = value

(***************************************************************************)
(* SpecVerdict: the comparisons of _evaluate on one pair of results: the   *)
(* reference rows (whose canonical form is the stored gold answer, and     *)
(* which are the SQLite rows under --compare-to sqlite) and the rows that  *)
(* DuckDB returned, ordered and with --unordered.                          *)
(***************************************************************************)
VerdictRows ==
    { <<PyInt(2014)>>, <<PyFloat(2014, 0)>>, <<PyStr(<<"3">>)>>, <<PyInt(3)>>,
      <<PyBytes(<<1, 2>>)>>, <<PyDate(2014, 1, 2)>>, <<PyDecimal(1, 0)>> }

\* what sqlite3 returns: None, int, float, str, bytes
SqliteNative(rows) ==
    \A i \in 1..Len(rows) : \A j \in 1..Len(rows[i]) :
        rows[i][j].k \in {"none", "int", "float", "str", "bytes"}

NoVerdict == [ordered |-> "none", unordered |-> "none"]
Verdict(ok) == IF ok THEN "accept" ELSE "reject"

InitVerdict ==
    /\ cexp \in SeqsUpTo(VerdictRows, MaxRows)
    /\ cgot \in SeqsUpTo(VerdictRows, MaxRows)
    /\ cgold = NoVerdict
    /\ clive = NoVerdict
    /\ FirstIdle
    /\ MoreIdle
    /\ RewriteIdle
    /\ ConnIdle
    /\ IdsIdle

\* --compare-to gold: rows_equal(exp, got)
GoldOrdered ==
    /\ cgold.ordered = "none"
    /\ cgold' = [cgold EXCEPT !.ordered = Verdict(rows_equal(AsAnswer(cexp), cgot))]
    /\ UNCHANGED <<cexp, cgot, clive, notVerdict>>

\* --compare-to gold --unordered: rows_equal_unordered(exp, got)
GoldUnordered ==
    /\ cgold.unordered = "none"
    /\ cgold' = [cgold EXCEPT !.unordered =
                        Verdict(rows_equal_unordered(AsAnswer(cexp), cgot))]
    /\ UNCHANGED <<cexp, cgot, clive, notVerdict>>

\* --compare-to sqlite: rows_equal_sqlite_duckdb(sqlite_rows, got, unordered=False)
LiveOrdered ==
    /\ clive.ordered = "none"
    /\ SqliteNative(cexp)
    /\ clive' = [clive EXCEPT !.ordered =
                        Verdict(rows_equal_sqlite_duckdb(cexp, cgot, FALSE))]
    /\ UNCHANGED <<cexp, cgot, cgold, notVerdict>>

\* --compare-to sqlite --unordered
LiveUnordered ==
    /\ clive.unordered = "none"
    /\ SqliteNative(cexp)
    /\ clive' = [clive EXCEPT !.unordered =
                        Verdict(rows_equal_sqlite_duckdb(cexp, cgot, TRUE))]
    /\ UNCHANGED <<cexp, cgot, cgold, notVerdict>>

NextVerdict == GoldOrdered \/ GoldUnordered \/ LiveOrdered \/ LiveUnordered

SpecVerdict == InitVerdict /\ [][NextVerdict]_vars

\* C26: the ordered comparison with a stored gold answer gives the verdict that
\* the canonical form of the live rows gives; live rows whose canonical form is
\* the expected answer are correct, with blobs, decimals and dates among the cells.
OrderedVerdictIsCanonicalVerdict ==
    cgold.ordered # "none" =>
        /\ cgold.ordered = Verdict(rows_equal(AsAnswer(cexp), _jsonable_rows(cgot)))
        /\ AsAnswer(cgot) = AsAnswer(cexp) => cgold.ordered = "accept"

\* C28: a pair of results that the ordered comparison accepts is accepted by the
\* unordered comparison too, against gold answers and against SQLite's rows.
UnorderedNoStricterThanOrdered ==
    /\ cgold.ordered = "accept" => cgold.unordered # "reject"
    /\ clive.ordered = "accept" => clive.unordered # "reject"

\* C29: two processed corpus files never write to the same answer log, and when
\* the run is over the answer logs hold one record for every row of every
\* processed file, also for a hybrid file processed next to its counterpart.
AnswerLogsHoldEveryRow ==
    /\ xfile >= 2 => OutStem(xnames[1]) # OutStem(xnames[2])
    /\ xpc = "done" =>
        \A f \in 1..2 : \A i \in 1..Len(xfiles[f]) :
            \E r \in ExportRecords : r.file = f /\ r.row = i

(***************************************************************************)
(* SpecIds: the question ids that main of sqlite_execute.py and _evaluate  *)
(* of duckdb_pipeline.py (phase 1, then phase 2 on the compatible subset)  *)
(* give to the rows of one corpus file.  A file name is the sequence of    *)
(* its dot-separated parts, a raw row is empty, short, without SQL, or a   *)
(* full row of a database.                                                 *)
(***************************************************************************)
IdNameSamples == { <<"AQueries", "csv">>, <<"A", "v2Queries", "csv">> }

IdRowSamples ==
    { [kind |-> "empty", db |-> ""], [kind |-> "short", db |-> "db1"],
      [kind |-> "nosql", db |-> "db1"], [kind |-> "row", db |-> "db1"],
      [kind |-> "row", db |-> "db2"] }

\* os.path.splitext(os.path.basename(csv_path))[0]
splitext_base(name) == SubSeq(name, 1, Len(name) - 1)
\* csv_path.stem
stem(name) == SubSeq(name, 1, Len(name) - 1)

RECURSIVE NonEmptyFrom(_, _)
\* the positions in the file of the rows that csv.reader returns non-empty
NonEmptyFrom(rows, i) ==
    IF i > Len(rows) THEN <<>>
    ELSE IF rows[i].kind = "empty" THEN NonEmptyFrom(rows, i + 1)
    ELSE <<i>> \o NonEmptyFrom(rows, i + 1)

\* iter_csv_rows of sqlite_execute.py: if not row: continue
iter_csv_rows(rows) == NonEmptyFrom(rows, 1)

\* _iter_csv_rows of duckdb_pipeline.py: if row: yield row
_iter_csv_rows_all(rows) == [i \in 1..Len(rows) |-> i]
_iter_csv_rows(rows) == NonEmptyFrom(rows, 1)

\* f"{base}:{row_idx}"
Qid(base, row_idx) == [base |-> base, row_idx |-> row_idx]

InitIds ==
    /\ qname \in IdNameSamples
    /\ qrows \in SeqsUpTo(IdRowSamples, MaxIdRows)
    /\ qonly \in {"", "db1"}
    /\ qexport = <<>>
    /\ qxidx = 1
    /\ qxpc = "run"
    /\ qharness = [p \in {"p1", "p2"} |-> <<>>]
    /\ qpass = "p1"
    /\ qhidx = 1
    /\ qcompatible = {}
    /\ FirstIdle
    /\ MoreIdle
    /\ RewriteIdle
    /\ ConnIdle
    /\ VerdictIdle

IdFrame == UNCHANGED <<qname, qrows, qonly, notIds>>
ExporterIdle == UNCHANGED <<qexport, qxidx, qxpc>>
HarnessIdle == UNCHANGED <<qharness, qpass, qhidx, qcompatible>>

ExporterAt == iter_csv_rows(qrows)[qxidx]
HarnessAt == _iter_csv_rows(qrows)[qhidx]

\* the exporter: a row without db_id or gold_sql ends the run
ExporterMalformed ==
    /\ qxpc = "run"
    /\ qxidx <= Len(iter_csv_rows(qrows))
    /\ qrows[ExporterAt].kind # "row"
    /\ qxpc' = "fatal"
    /\ UNCHANGED <<qexport, qxidx>>
    /\ HarnessIdle
    /\ IdFrame

\* the exporter: the row's record is written with question_id = f"{base}:{row_idx}"
ExporterRow ==
    /\ qxpc = "run"
    /\ qxidx <= Len(iter_csv_rows(qrows))
    /\ qrows[ExporterAt].kind = "row"
    /\ qexport' = Put(qexport, ExporterAt, Qid(splitext_base(qname), qxidx))
    /\ qxidx' = qxidx + 1
    /\ qxpc' = qxpc
    /\ HarnessIdle
    /\ IdFrame

ExporterDone ==
    /\ qxpc = "run"
    /\ qxidx > Len(iter_csv_rows(qrows))
    /\ qxpc' = "done"
    /\ UNCHANGED <<qexport, qxidx>>
    /\ HarnessIdle
    /\ IdFrame

InHarness == qpass \in {"p1", "p2"} /\ qhidx <= Len(_iter_csv_rows(qrows))

\* the rows _evaluate leaves before qid is made, and those outside restrict_to
HarnessSkips ==
    \/ qrows[HarnessAt].kind # "row"
    \/ qonly # "" /\ qrows[HarnessAt].db # qonly
    \/ qpass = "p2" /\ <<qrows[HarnessAt].db, Qid(stem(qname), qhidx)>> \notin qcompatible

HarnessSkip ==
    /\ InHarness
    /\ HarnessSkips
    /\ qhidx' = qhidx + 1
    /\ UNCHANGED <<qharness, qpass, qcompatible>>
    /\ ExporterIdle
    /\ IdFrame

\* the row is evaluated under qid = f"{base}:{row_idx}"; in phase 1 it may turn
\* out compatible
HarnessRow ==
    /\ InHarness
    /\ ~HarnessSkips
    /\ qharness' = [qharness EXCEPT ![qpass] = Put(@, HarnessAt, Qid(stem(qname), qhidx))]
    /\ \E ok \in BOOLEAN :
        qcompatible' = IF ok /\ qpass = "p1"
                       THEN qcompatible \cup {<<qrows[HarnessAt].db, Qid(stem(qname), qhidx)>>}
                       ELSE qcompatible
    /\ qhidx' = qhidx + 1
    /\ qpass' = qpass
    /\ ExporterIdle
    /\ IdFrame

\* _evaluate returns: phase 2 follows phase 1
HarnessNextPass ==
    /\ qpass \in {"p1", "p2"}
    /\ qhidx > Len(_iter_csv_rows(qrows))
    /\ qpass' = IF qpass = "p1" THEN "p2" ELSE "done"
    /\ qhidx' = 1
    /\ UNCHANGED <<qharness, qcompatible>>
    /\ ExporterIdle
    /\ IdFrame

NextIds ==
    \/ ExporterMalformed
    \/ ExporterRow
    \/ ExporterDone
    \/ HarnessSkip
    \/ HarnessRow
    \/ HarnessNextPass

SpecIds == InitIds /\ [][NextIds]_vars

\* the 1-based position of the file's row r among the file's non-empty rows
NonEmptyPosition(r) == Cardinality({i \in 1..r : qrows[i].kind # "empty"})

\* the file name without its extension
FileStem == SubSeq(qname, 1, Len(qname) - 1)

\* C30: the exporter and the harness give a row of a corpus file the same
\* question id, the file's stem and the row's 1-based position among the file's
\* non-empty rows; rows that the harness skips shift no later id, and phase 2
\* uses the ids of phase 1.
SameQuestionIds ==
    /\ \A r \in DOMAIN qexport : qexport[r] = Qid(FileStem, NonEmptyPosition(r))
    /\ \A p \in {"p1", "p2"} : \A r \in DOMAIN qharness[p] :
        /\ qharness[p][r] = Qid(FileStem, NonEmptyPosition(r))
        /\ r \in DOMAIN qexport => qharness[p][r] = qexport[r]
        /\ r \in DOMAIN qharness["p1"] /\ qharness["p1"][r] = qharness[p][r]

\* an empty line and a row of another database before a row that the exporter
\* and both phases of the harness (under --db db1) gave an id
IdsAfterSkippedRowsWitness ==
    /\ qonly = "db1"
    /\ Len(qrows) = 3
    /\ qrows[1].kind = "empty"
    /\ qrows[2] = [kind |-> "row", db |-> "db2"]
    /\ 3 \in DOMAIN qexport
    /\ 3 \in DOMAIN qharness["p1"]
    /\ 3 \in DOMAIN qharness["p2"]
    /\ qexport[3].row_idx = 2

====
